---- MODULE Spec2Model ----
(***************************************************************************)
(* State-machine model of react-piano-keyboard's core:                     *)
(*   - useMidiConnectionManager (device connection lifecycle, retries)     *)
(*   - usePianoNotes / useAudioEngine / MIDI message handlers              *)
(*   - MidiRecorder (record, playback, JSON and MIDI export)               *)
(*   - NoteRecognitionModule's timing analyzer                             *)
(*                                                                         *)
(* React is modelled by what the hook's code relies on: a useState value   *)
(* is the latest value set; a callback reads the values of the render in   *)
(* which it was created (its closure); a callback handed to a timer or to  *)
(* WebMidi keeps the closure it was created with; a useRef cell is read    *)
(* and written in place.                                                   *)
(***************************************************************************)
EXTENDS Integers, Sequences, FiniteSets, TLC

(***************************************************************************)
(* Bounds of the model                                                     *)
(***************************************************************************)
MaxEvents == 4
MaxBuffer == 2
MaxClock == 2
MaxPlayed == 2
MaxPlaybacks == 2
MaxBatch == 3

(***************************************************************************)
(* Program constants                                                       *)
(***************************************************************************)
maxRetryAttempts == 3
HistoryCapacity == 5
BackoffUnitMs == 1000

Null == "null"
Devices == {"A", "B"}

\* CONNECTION_STATUS
UNAVAILABLE == "unavailable"
DISCONNECTED == "disconnected"
CONNECTING == "connecting"
CONNECTED == "connected"
ERROR == "error"

autoRetry == TRUE

VARIABLES
  \* ---- useMidiConnectionManager: useState cells
  connectionStatus, inputs, selectedInput, errorInfo, connectionHistory,
  isRefreshing,
  \* ---- useRef cells
  webMidiEnabled,     \* webMidiRef.current && webMidiRef.current.enabled
  retryAttempts,      \* retryAttemptsRef.current
  retryTimeoutRef,    \* retryTimeoutRef.current: Null, "live" (the id of the
                      \* timer set last, still pending) or "stale" (of a timer
                      \* that has fired)
  \* ---- React bookkeeping
  closure,            \* values closed over by the callbacks of the last commit
  renderPending,      \* a setState was called since the last commit
  depsChanged,        \* ... and it changed a dependency of the init effect
  cleanupRegistered,  \* the init effect returned its cleanup function
  effectClosure,      \* closure of the render whose effect ran initializeWebMidi
  isMounted,          \* the init effect's local flag
  initPc,             \* position of initializeWebMidi
  autoConnect,        \* the hook's option, fixed for the run
  \* ---- environment
  ports,              \* WebMidi.inputs: the devices plugged in, in order
  hotplugListener,    \* WebMidi has the 'connected'/'disconnected' listeners
  deviceListeners,    \* devices with noteon/noteoff/controlchange listeners
  timers,             \* pending retry timers, in scheduling order
  autoTimer,          \* the setTimeout(..., 0) of the auto-connect is pending
  refreshTimer,       \* the setTimeout(..., 500) of refreshDevices is pending
  lastDevice,         \* localStorage midi_last_device
  storedHistory,      \* localStorage midi_connection_history
  storeThrows,        \* localStorage throws on every access, fixed for the run
  \* ---- observation
  lastOp,             \* the handler that ran last
  retryLog,           \* delays scheduled by the current retry chain
  logClean,           \* the chain began with counter 0 and no other timer
                      \* pending, and no other connect or disconnect call
                      \* has come between
  eventCount,         \* handler calls and hot-plug events so far (bounded)
  \* ---- MidiRecorder
  recorder,           \* events, isRecording, startTime, stopTime (lines 120-123)
  now,                \* Date.now()
  importOk,           \* what the last importFromJSON returned
  recOp,              \* the recorder method that ran last
  session,            \* the calls since startRecording, while no other method
                      \* than processMidiMessage and stopRecording has run
  playbacks,          \* the handles playRecording returned, oldest first
  \* ---- a component that uses usePianoNotes and useAudioEngine
  piano,              \* its hook state and what React has queued for it
  component,          \* which one it is: "Piano" or "PianoProvider"
  midiClosure,        \* what the handler given to the MIDI listeners closed over
  batch,              \* calls since React last rendered the component (bounded)
  \* ---- a timing analyzer (createTimingAnalyzer)
  analyzer,           \* noteTimings, metronomeTempo, beatDuration (lines 141-143)
  timingOp,           \* the analyzer method that ran last, with its argument
  opened,             \* per note number: the timestamp of its note-on, while
                      \* that is the last message handled for the note
  \* ---- the helper functions, applied to an argument
  formatted,          \* the last formatMidiNote call: its argument and result
  encoded             \* the last encodeVariableLength call: argument and bytes

connVars == << connectionStatus, inputs, selectedInput, errorInfo,
               connectionHistory, isRefreshing, webMidiEnabled, retryAttempts,
               retryTimeoutRef, closure, renderPending, depsChanged,
               cleanupRegistered, effectClosure, isMounted, initPc, autoConnect, storeThrows, ports,
               hotplugListener, deviceListeners, timers, autoTimer,
               refreshTimer, lastDevice, storedHistory, lastOp, retryLog,
               logClean, eventCount >>

recVars == << recorder, now, importOk, recOp, session >>

playVars == << playbacks >>

pianoVars == << piano, component, midiClosure, batch >>

timingVars == << analyzer, timingOp, opened >>

helperVars == << formatted, encoded >>

\* What no step of the connection manager touches.
nonConnVars == << recVars, playVars, pianoVars, timingVars, helperVars >>

vars == << connVars, recVars, playVars, pianoVars, timingVars, helperVars >>

(***************************************************************************)
(* Sequence helpers                                                        *)
(***************************************************************************)
Range(s) == { s[i] : i \in 1..Len(s) }

Without(s, x) == SelectSeq(s, LAMBDA e : e # x)

Take(s, n) == SubSeq(s, 1, IF Len(s) < n THEN Len(s) ELSE n)

RECURSIVE Pow2(_)
Pow2(n) == IF n = 0 THEN 1 ELSE 2 * Pow2(n - 1)

(***************************************************************************)
(* useMidiConnectionManager                                                *)
(***************************************************************************)
\* The values a render's callbacks close over (useCallback dependencies).
ClosureOf(sel, inp, hist) == [sel |-> sel, inputs |-> inp, hist |-> hist]

\* The useState initial values of the first render.
MountClosure == ClosureOf(Null, << >>, << >>)

\* The handler that ran, and the connectionStatus it started from.
Op(name) == [op |-> name, from |-> connectionStatus]

\* The cells connectToDevice and its callers read and write, as one record.
Cur == [status |-> connectionStatus, sel |-> selectedInput, err |-> errorInfo,
        hist |-> connectionHistory, att |-> retryAttempts,
        tref |-> retryTimeoutRef, dl |-> deviceListeners, tm |-> timers,
        last |-> lastDevice, shist |-> storedHistory, log |-> retryLog,
        clean |-> logClean, rp |-> renderPending, dc |-> depsChanged]

Apply(k) ==
  /\ connectionStatus' = k.status
  /\ selectedInput' = k.sel
  /\ errorInfo' = k.err
  /\ connectionHistory' = k.hist
  /\ retryAttempts' = k.att
  /\ retryTimeoutRef' = k.tref
  /\ deviceListeners' = k.dl
  /\ timers' = k.tm
  /\ lastDevice' = k.last
  /\ storedHistory' = k.shist
  /\ retryLog' = k.log
  /\ logClean' = k.clean
  /\ renderPending' = k.rp
  /\ depsChanged' = k.dc

\* The mutation of BackoffDelay: a delay that grows by a second per attempt.
LinearDelay(attempt) == (attempt + 1) * BackoffUnitMs

\* Math.pow(2, retryAttemptsRef.current) * 1000
BackoffDelay(attempt) == Pow2(attempt) * BackoffUnitMs

\* autoRetry && retryAttemptsRef.current < maxRetryAttempts
ShouldRetry(attempt) == autoRetry /\ attempt < maxRetryAttempts

\* The mutation of RemoveMidiHandlers: the listeners are left in place.
KeepMidiHandlers(dl, input) == dl

\* removeMidiHandlers(input): no-op on null, else drops all three listeners.
RemoveMidiHandlers(dl, input) == IF input = Null THEN dl ELSE dl \ {input}

\* setupMidiHandlers(input): adds the three listeners.
SetupMidiHandlers(dl, input) == IF input = Null THEN dl ELSE dl \cup {input}

\* The mutation of NewHistory: no slice.
NewHistoryUnbounded(hist, deviceId) == << deviceId >> \o Without(hist, deviceId)

\* [{id: deviceId, ...}, ...connectionHistory.filter(d => d.id !== deviceId)].slice(0, 5)
NewHistory(hist, deviceId) ==
  Take(<< deviceId >> \o Without(hist, deviceId), HistoryCapacity)

\* setTimeout(() => { retryAttemptsRef.current += 1; connectToDevice(deviceId) }, delay)
\* The callback keeps the connectToDevice closure that scheduled it.
RetryTimer(c, deviceId, delay) ==
  [dev |-> deviceId, delay |-> delay, sel |-> c.sel, hist |-> c.hist]

(***************************************************************************)
(* midiStorageManager.  Each function wraps its localStorage access in a   *)
(* try/catch: threw says whether an exception leaves the function.         *)
(***************************************************************************)
\* getLastMidiDevice() (part_006 lines 26-33): null when the access throws.
getLastMidiDevice == IF storeThrows THEN Null ELSE lastDevice

\* getMidiConnectionHistory() (lines 51-59): [] when the access throws.
getMidiConnectionHistory == IF storeThrows THEN << >> ELSE storedHistory

\* The mutation of saveMidiConnectionHistory: the exception is not caught.
saveHistoryUncaught(stored, devices) ==
  [threw |-> storeThrows, stored |-> IF storeThrows THEN stored ELSE devices]

\* saveMidiConnectionHistory(devices) (lines 39-45): what the store holds
\* afterwards.
saveMidiConnectionHistory(stored, devices) ==
  [threw |-> FALSE, stored |-> IF storeThrows THEN stored ELSE devices]

\* saveMidiDevicePreference(deviceId) (lines 14-20).
saveMidiDevicePreference(stored, deviceId) ==
  [threw |-> FALSE, stored |-> IF storeThrows THEN stored ELSE deviceId]

\* The text of the exception of a localStorage access: it has none of the
\* substrings getMIDIErrorCode looks for.
StoreErrorText == {}

\* getMIDIErrorCode(error) (midiUtils lines 225-232).  An error text is kept
\* as the set of the substrings, of those the function looks for, that its
\* lower-cased message includes.
getMIDIErrorCode(text) ==
  IF "permission" \in text THEN "PERMISSION_DENIED"
  ELSE IF "not supported" \in text THEN "NOT_SUPPORTED"
  ELSE IF "not found" \in text THEN "DEVICE_NOT_FOUND"
  ELSE IF "connection" \in text THEN "CONNECTION_FAILED"
  ELSE "UNKNOWN_ERROR"

\* `MIDI input device with ID ${deviceId} not found` (line 224), for the
\* device ids of the model.
DeviceNotFoundText(deviceId) == {"not found"}

\* connectToDevice(deviceId) of the render with closure c, run on cells k.
\* user: called by a handler (TRUE) or by a retry timer (FALSE); it only
\* steers the observation cells log and clean.
connectToDevice(c, deviceId, k, user) ==
  IF ~webMidiEnabled
  THEN [k EXCEPT !.err = "NOT_ENABLED", !.status = ERROR, !.rp = TRUE,
                 !.clean = FALSE, !.log = << >>]
  ELSE LET removed == RemoveMidiHandlers(k.dl, c.sel) IN
       IF deviceId \in Range(ports)
       THEN LET newHistory == NewHistory(c.hist, deviceId)
                savedHistory == saveMidiConnectionHistory(k.shist, newHistory)
                savedDevice == saveMidiDevicePreference(k.last, deviceId)
                connected ==
                  [k EXCEPT !.status = CONNECTED, !.sel = deviceId,
                            !.dl = SetupMidiHandlers(removed, deviceId),
                            !.err = Null, !.att = 0,
                            !.hist = newHistory, !.shist = savedHistory.stored,
                            !.rp = TRUE, !.dc = TRUE,
                            !.clean = FALSE, !.log = << >>]
            IN IF savedHistory.threw \/ savedDevice.threw
               \* an exception of a save would be caught at line 249
               THEN [connected EXCEPT
                       !.status = ERROR, !.err = getMIDIErrorCode(StoreErrorText),
                       !.tm = IF ShouldRetry(0)
                              THEN Append(k.tm, RetryTimer(c, deviceId, BackoffDelay(0)))
                              ELSE k.tm,
                       !.tref = IF ShouldRetry(0) THEN "live" ELSE k.tref]
               ELSE [connected EXCEPT !.last = savedDevice.stored]
       ELSE LET sched == ShouldRetry(k.att)
                delay == BackoffDelay(k.att)
                clean == IF user THEN k.att = 0 /\ k.tm = << >> ELSE k.clean
                base  == IF user THEN << >> ELSE k.log
            IN [k EXCEPT !.status = ERROR,
                         !.err = getMIDIErrorCode(DeviceNotFoundText(deviceId)),
                         !.dl = removed, !.rp = TRUE,
                         !.tm = IF sched
                                THEN Append(k.tm, RetryTimer(c, deviceId, delay))
                                ELSE k.tm,
                         !.tref = IF sched THEN "live" ELSE k.tref,
                         !.clean = clean,
                         !.log = IF ~clean THEN << >>
                                 ELSE IF sched THEN Append(base, delay) ELSE base]

\* The mutation of AutoConnectTarget: the stored history is not consulted.
AutoConnectSkipsHistory(c) ==
  IF getLastMidiDevice # Null /\ getLastMidiDevice \in Range(c.inputs)
  THEN getLastMidiDevice
  ELSE c.inputs[1]

\* The device autoConnectToDevice picks: last used, else first of the stored
\* history that is enumerated, else the first enumerated.
AutoConnectTarget(c) ==
  IF getLastMidiDevice # Null /\ getLastMidiDevice \in Range(c.inputs)
  THEN getLastMidiDevice
  ELSE LET history == getMidiConnectionHistory
           hits == { i \in 1..Len(history) : history[i] \in Range(c.inputs) }
       IN IF hits # {}
          THEN history[CHOOSE i \in hits : \A j \in hits : i <= j]
          ELSE c.inputs[1]

\* autoConnectToDevice() of the render with closure c.
autoConnectToDevice(c, k) ==
  IF ~webMidiEnabled \/ Len(c.inputs) = 0 THEN k
  ELSE IF c.sel # Null THEN k
  ELSE connectToDevice(c, AutoConnectTarget(c), k, TRUE)

\* refreshDevices(): returns at once when WebMidi is not enabled.
RefreshStarts == webMidiEnabled

\* Handlers of the user interface run the callbacks of the last commit, and
\* React commits a pending render before the next one is dispatched; the
\* synchronous tail of initializeWebMidi is never interleaved with a handler,
\* and its setTimeout(..., 0) fires before any later event.
Idle == ~renderPending /\ ~autoTimer /\ initPc \notin {"mount", "listen"}

\* A call from outside the hook: a handler of the user interface or a
\* hot-plug event.  The model explores runs of at most MaxEvents of them.
Event == Idle /\ eventCount < MaxEvents /\ eventCount' = eventCount + 1

\* ---- useEffect, first run (lines 339-413): initializeWebMidi starts.
EffectMount ==
  /\ UNCHANGED << eventCount, nonConnVars >>
  /\ initPc = "mount"
  /\ isMounted' = TRUE
  /\ connectionStatus' = CONNECTING
  /\ renderPending' = TRUE
  /\ cleanupRegistered' = TRUE
  /\ effectClosure' = closure
  /\ initPc' = "enabling"
  /\ lastOp' = Op("mount")
  /\ UNCHANGED << inputs, selectedInput, errorInfo, connectionHistory,
                  isRefreshing, webMidiEnabled, retryAttempts, retryTimeoutRef,
                  closure, depsChanged, autoConnect, storeThrows, ports, hotplugListener,
                  deviceListeners, timers, autoTimer, refreshTimer, lastDevice,
                  storedHistory, retryLog, logClean >>

\* ---- WebMidi.enable() resolves (lines 365-375).
InitEnabled ==
  /\ UNCHANGED << eventCount, nonConnVars >>
  /\ initPc = "enabling"
  /\ webMidiEnabled' = TRUE
  /\ IF isMounted
     THEN /\ connectionHistory' = getMidiConnectionHistory
          /\ inputs' = ports
          /\ renderPending' = TRUE
          /\ depsChanged' = TRUE
          /\ initPc' = "listen"
     ELSE /\ initPc' = "done"
          /\ UNCHANGED << connectionHistory, inputs, renderPending, depsChanged >>
  /\ lastOp' = Op("enabled")
  /\ UNCHANGED << connectionStatus, selectedInput, errorInfo, isRefreshing,
                  retryAttempts, retryTimeoutRef, closure, cleanupRegistered,
                  effectClosure, isMounted, autoConnect, storeThrows, ports, hotplugListener,
                  deviceListeners, timers, autoTimer, refreshTimer, lastDevice,
                  storedHistory, retryLog, logClean >>

\* ---- WebMidi.enable() rejects (lines 393-409).
InitFailed(code) ==
  /\ UNCHANGED << eventCount, nonConnVars >>
  /\ initPc = "enabling"
  /\ initPc' = "failed"
  /\ IF isMounted
     THEN /\ errorInfo' = code
          /\ connectionStatus' = IF code = "NOT_SUPPORTED" THEN UNAVAILABLE ELSE ERROR
          /\ renderPending' = TRUE
     ELSE UNCHANGED << errorInfo, connectionStatus, renderPending >>
  /\ lastOp' = Op("initFailed")
  /\ UNCHANGED << inputs, selectedInput, connectionHistory, isRefreshing,
                  webMidiEnabled, retryAttempts, retryTimeoutRef, closure,
                  depsChanged, cleanupRegistered, effectClosure, isMounted,
                  autoConnect, storeThrows, ports, hotplugListener, deviceListeners, timers,
                  autoTimer, refreshTimer, lastDevice, storedHistory, retryLog,
                  logClean >>

\* ---- the rest of initializeWebMidi (lines 377-392): the hot-plug listeners
\* are the handlers of the effect's render; the auto-connect is deferred.
InitListen ==
  /\ UNCHANGED << eventCount, nonConnVars >>
  /\ initPc = "listen"
  /\ initPc' = "done"
  /\ hotplugListener' = TRUE
  /\ IF autoConnect /\ Len(ports) > 0
     THEN /\ autoTimer' = TRUE
          /\ UNCHANGED << connectionStatus, renderPending >>
     ELSE /\ connectionStatus' = DISCONNECTED
          /\ renderPending' = TRUE
          /\ UNCHANGED autoTimer
  /\ lastOp' = Op("listen")
  /\ UNCHANGED << inputs, selectedInput, errorInfo, connectionHistory,
                  isRefreshing, webMidiEnabled, retryAttempts, retryTimeoutRef,
                  closure, depsChanged, cleanupRegistered, effectClosure,
                  isMounted, autoConnect, storeThrows, ports, deviceListeners, timers,
                  refreshTimer, lastDevice, storedHistory, retryLog, logClean >>

\* ---- React commits a render.  When a dependency of the init effect changed,
\* the effect's cleanup (lines 416-434) runs with the closure of the render
\* that registered it, then the effect runs again (lines 339-343).
Render ==
  /\ UNCHANGED << eventCount, nonConnVars >>
  /\ renderPending
  /\ renderPending' = FALSE
  /\ depsChanged' = FALSE
  /\ closure' = ClosureOf(selectedInput, inputs, connectionHistory)
  /\ lastOp' = Op("render")
  /\ IF depsChanged
     THEN LET clean == cleanupRegistered
              deep  == clean /\ webMidiEnabled
          IN /\ hotplugListener' = IF deep THEN FALSE ELSE hotplugListener
             /\ deviceListeners' = IF deep
                                   THEN RemoveMidiHandlers(deviceListeners, effectClosure.sel)
                                   ELSE deviceListeners
             /\ timers' = IF deep /\ retryTimeoutRef = "live"
                          THEN SubSeq(timers, 1, Len(timers) - 1)
                          ELSE timers
             /\ retryTimeoutRef' = IF deep THEN Null ELSE retryTimeoutRef
             /\ IF webMidiEnabled
                THEN /\ cleanupRegistered' = FALSE
                     /\ isMounted' = IF clean THEN FALSE ELSE isMounted
                     /\ UNCHANGED << effectClosure, initPc, connectionStatus >>
                ELSE /\ cleanupRegistered' = TRUE
                     /\ isMounted' = TRUE
                     /\ effectClosure' = closure'
                     /\ initPc' = "enabling"
                     /\ connectionStatus' = CONNECTING
     ELSE UNCHANGED << hotplugListener, deviceListeners, timers, retryTimeoutRef,
                       cleanupRegistered, isMounted, effectClosure, initPc,
                       connectionStatus >>
  /\ UNCHANGED << inputs, selectedInput, errorInfo, connectionHistory,
                  isRefreshing, webMidiEnabled, retryAttempts, autoConnect, storeThrows,
                  ports, autoTimer, refreshTimer, lastDevice, storedHistory,
                  retryLog, logClean >>

\* ---- the deferred auto-connect fires (lines 383-387).
AutoTimerFire ==
  /\ UNCHANGED << eventCount, nonConnVars >>
  /\ autoTimer
  /\ autoTimer' = FALSE
  /\ Apply(IF isMounted THEN autoConnectToDevice(effectClosure, Cur) ELSE Cur)
  /\ lastOp' = Op("autoTimer")
  /\ UNCHANGED << inputs, isRefreshing, webMidiEnabled, closure,
                  cleanupRegistered, effectClosure, isMounted, initPc,
                  autoConnect, storeThrows, ports, hotplugListener, refreshTimer >>

\* What no handler of the hook writes.
HandlerFrame ==
  UNCHANGED << webMidiEnabled, closure, cleanupRegistered, effectClosure,
               isMounted, initPc, autoConnect, storeThrows, hotplugListener, autoTimer,
               nonConnVars >>

\* ---- the user selects a device: connectToDevice(deviceId) (lines 199-288).
Connect(d) ==
  /\ Event
  /\ Apply(connectToDevice(closure, d, Cur, TRUE))
  /\ lastOp' = Op("connect")
  /\ HandlerFrame
  /\ UNCHANGED << inputs, isRefreshing, ports, refreshTimer >>

\* ---- autoConnectToDevice() called through the hook's API (lines 294-334).
AutoConnect ==
  /\ Event
  /\ Apply(autoConnectToDevice(closure, Cur))
  /\ lastOp' = Op("autoConnect")
  /\ HandlerFrame
  /\ UNCHANGED << inputs, isRefreshing, ports, refreshTimer >>

\* ---- disconnect() (lines 448-455).
Disconnect ==
  /\ Event
  /\ IF closure.sel # Null
     THEN /\ deviceListeners' = RemoveMidiHandlers(deviceListeners, closure.sel)
          /\ selectedInput' = Null
          /\ connectionStatus' = DISCONNECTED
          /\ renderPending' = TRUE
          /\ depsChanged' = TRUE
          /\ logClean' = FALSE
          /\ retryLog' = << >>
     ELSE UNCHANGED << deviceListeners, selectedInput, connectionStatus,
                       renderPending, depsChanged, logClean, retryLog >>
  /\ lastOp' = Op("disconnect")
  /\ HandlerFrame
  /\ UNCHANGED << inputs, errorInfo, connectionHistory, isRefreshing,
                  retryAttempts, retryTimeoutRef, ports, timers, refreshTimer,
                  lastDevice, storedHistory >>

\* ---- refreshDevices() (lines 460-478).
RefreshDevices ==
  /\ Event
  /\ IF RefreshStarts
     THEN /\ isRefreshing' = TRUE
          /\ refreshTimer' = TRUE
          /\ renderPending' = TRUE
     ELSE UNCHANGED << isRefreshing, refreshTimer, renderPending >>
  /\ lastOp' = Op("refresh")
  /\ HandlerFrame
  /\ UNCHANGED << connectionStatus, inputs, selectedInput, errorInfo,
                  connectionHistory, retryAttempts, retryTimeoutRef,
                  depsChanged, ports, deviceListeners, timers, lastDevice,
                  storedHistory, retryLog, logClean >>

\* ---- the 500 ms timer of refreshDevices fires (lines 471-475).
RefreshTimerFire ==
  /\ UNCHANGED << eventCount, nonConnVars >>
  /\ Idle
  /\ refreshTimer
  /\ refreshTimer' = FALSE
  /\ inputs' = ports
  /\ isRefreshing' = FALSE
  /\ renderPending' = TRUE
  /\ depsChanged' = TRUE
  /\ lastOp' = Op("refreshTimer")
  /\ HandlerFrame
  /\ UNCHANGED << connectionStatus, selectedInput, errorInfo, connectionHistory,
                  retryAttempts, retryTimeoutRef, ports, deviceListeners, timers,
                  lastDevice, storedHistory, retryLog, logClean >>

\* The mutation of RetryBranch: no fallback to the enumerated devices.
RetryBranchSelectedOnly(c) == IF c.sel # Null THEN "selected" ELSE "refresh"

\* The branch retryConnection() takes (lines 487-497).
RetryBranch(c) ==
  IF c.sel # Null THEN "selected"
  ELSE IF Len(c.inputs) > 0 THEN "auto"
  ELSE "refresh"

\* ---- retryConnection() (lines 483-498).
RetryConnection ==
  /\ Event
  /\ LET k0 == [Cur EXCEPT !.err = Null, !.rp = TRUE]
         b  == RetryBranch(closure)
     IN /\ Apply(IF b = "selected" THEN connectToDevice(closure, closure.sel, k0, TRUE)
                 ELSE IF b = "auto" THEN autoConnectToDevice(closure, k0)
                 ELSE k0)
        /\ IF b = "refresh" /\ RefreshStarts
           THEN isRefreshing' = TRUE /\ refreshTimer' = TRUE
           ELSE UNCHANGED << isRefreshing, refreshTimer >>
  /\ lastOp' = Op("retryConnection")
  /\ HandlerFrame
  /\ UNCHANGED << inputs, ports >>

\* A timer set earlier with a delay that is not longer has fired before.
MayFire(i) == \A j \in 1..(i - 1) : timers[j].delay > timers[i].delay

RemoveAt(s, i) == SubSeq(s, 1, i - 1) \o SubSeq(s, i + 1, Len(s))

\* ---- a retry timer fires (lines 266-269).
RetryTimerFire(i) ==
  /\ UNCHANGED << eventCount, nonConnVars >>
  /\ Idle
  /\ i \in 1..Len(timers)
  /\ MayFire(i)
  /\ LET t  == timers[i]
         k0 == [Cur EXCEPT !.att = retryAttempts + 1, !.tm = RemoveAt(timers, i),
                           !.tref = IF i = Len(timers) /\ retryTimeoutRef = "live"
                                    THEN "stale" ELSE retryTimeoutRef]
     IN /\ Apply(connectToDevice(ClosureOf(t.sel, << >>, t.hist), t.dev, k0, FALSE))
        /\ lastOp' = Op("retryTimer")
  /\ HandlerFrame
  /\ UNCHANGED << inputs, isRefreshing, ports, refreshTimer >>

\* handleDeviceConnected's update of inputs (lines 73-80).
AddInput(prevInputs, portId) ==
  IF portId \in Range(prevInputs) THEN prevInputs ELSE Append(prevInputs, portId)

\* handleDeviceDisconnected's update of inputs (line 96).
RemoveInput(prevInputs, portId) == Without(prevInputs, portId)

\* handleDeviceDisconnected's test, with the selectedInput of its closure (line 99).
IsSelectedPort(c, portId) == c.sel # Null /\ c.sel = portId

\* ---- a device is plugged in; WebMidi emits 'connected' (lines 67-84).
PlugIn(d) ==
  /\ Event
  /\ d \notin Range(ports)
  /\ ports' = Append(ports, d)
  /\ IF hotplugListener /\ webMidiEnabled
     THEN /\ inputs' = AddInput(inputs, d)
          /\ renderPending' = (inputs' # inputs)
          /\ depsChanged' = (inputs' # inputs)
     ELSE UNCHANGED << inputs, renderPending, depsChanged >>
  /\ lastOp' = Op("plug")
  /\ HandlerFrame
  /\ UNCHANGED << connectionStatus, selectedInput, errorInfo, connectionHistory,
                  isRefreshing, retryAttempts, retryTimeoutRef, deviceListeners,
                  timers, refreshTimer, lastDevice, storedHistory, retryLog,
                  logClean >>

\* ---- a device is removed; WebMidi emits 'disconnected' (lines 90-107).
Unplug(d) ==
  /\ Event
  /\ d \in Range(ports)
  /\ ports' = Without(ports, d)
  /\ IF hotplugListener /\ webMidiEnabled
     THEN /\ inputs' = RemoveInput(inputs, d)
          /\ renderPending' = TRUE
          /\ depsChanged' = TRUE
          /\ IF IsSelectedPort(effectClosure, d)
             THEN selectedInput' = Null /\ connectionStatus' = DISCONNECTED
             ELSE UNCHANGED << selectedInput, connectionStatus >>
     ELSE UNCHANGED << inputs, renderPending, depsChanged, selectedInput,
                       connectionStatus >>
  /\ lastOp' = Op("unplug")
  /\ HandlerFrame
  /\ UNCHANGED << errorInfo, connectionHistory, isRefreshing, retryAttempts,
                  retryTimeoutRef, deviceListeners, timers, refreshTimer,
                  lastDevice, storedHistory, retryLog, logClean >>

InitPorts == { << >>, << "A" >>, << "A", "B" >> }
InitLastDevice == { Null, "B" }
\* C to F are devices of earlier sessions, no longer plugged in.
InitStoredHistory == { << >>, << "B" >>, << "B", "C", "D", "E", "F" >> }

ConnInit ==
  /\ connectionStatus = DISCONNECTED
  /\ inputs = << >>
  /\ selectedInput = Null
  /\ errorInfo = Null
  /\ connectionHistory = << >>
  /\ isRefreshing = FALSE
  /\ webMidiEnabled = FALSE
  /\ retryAttempts = 0
  /\ retryTimeoutRef = Null
  /\ closure = MountClosure
  /\ renderPending = FALSE
  /\ depsChanged = FALSE
  /\ cleanupRegistered = FALSE
  /\ effectClosure = MountClosure
  /\ isMounted = FALSE
  /\ initPc = "mount"
  /\ autoConnect \in BOOLEAN
  /\ ports \in InitPorts
  /\ hotplugListener = FALSE
  /\ deviceListeners = {}
  /\ timers = << >>
  /\ autoTimer = FALSE
  /\ refreshTimer = FALSE
  \* what a store that throws holds is never read nor written
  /\ storeThrows \in BOOLEAN
  /\ lastDevice \in (IF storeThrows THEN {Null} ELSE InitLastDevice)
  /\ storedHistory \in (IF storeThrows THEN {<< >>} ELSE InitStoredHistory)
  /\ lastOp = [op |-> "init", from |-> DISCONNECTED]
  /\ retryLog = << >>
  /\ logClean = FALSE
  /\ eventCount = 0

ConnNext ==
  \/ EffectMount
  \/ InitEnabled
  \/ \E code \in {"NOT_SUPPORTED", "PERMISSION_DENIED"} : InitFailed(code)
  \/ InitListen
  \/ Render
  \/ AutoTimerFire
  \/ \E d \in Devices : Connect(d)
  \/ AutoConnect
  \/ Disconnect
  \/ RefreshDevices
  \/ RefreshTimerFire
  \/ RetryConnection
  \/ \E i \in 1..Len(timers) : RetryTimerFire(i)
  \/ \E d \in Devices : PlugIn(d)
  \/ \E d \in Devices : Unplug(d)

(***************************************************************************)
(* JavaScript values.  A value that may be undefined or null is kept as a  *)
(* sequence: empty for undefined/null, one element for a value.            *)
(***************************************************************************)
Undef == << >>

Val(x) == << x >>

Get(v) == v[1]

\* x || y on an optional number: 0, null and undefined are falsy.
OrElse(x, y) == IF x = Undef \/ x = Val(0) THEN y ELSE x

\* Math.round(p / q) for p >= 0, q > 0.
RoundDiv(p, q) == (2 * p + q) \div (2 * q)

(***************************************************************************)
(* midiUtils                                                               *)
(***************************************************************************)
Notes == {"C4", "D4"}

\* The entries of midiNoteNumberToName for the notes of the model.
midiNoteNumberToName == (60 :> "C4") @@ (62 :> "D4")

\* getMidiNoteNumber(noteName): the number, or null when no entry has the name.
getMidiNoteNumber(noteName) ==
  LET found == { k \in DOMAIN midiNoteNumberToName :
                   Val(midiNoteNumberToName[k]) = noteName }
  IN IF found = {} THEN Undef ELSE Val(CHOOSE k \in found : TRUE)

\* getMidiNoteName(midiNumber) (lines 107-109).
getMidiNoteName(midiNumber) ==
  IF midiNumber \in DOMAIN midiNoteNumberToName
  THEN midiNoteNumberToName[midiNumber]
  ELSE "Unknown (" \o ToString(midiNumber) \o ")"

\* flatToSharpMap (lines 143-151), keyed by the note letter.
flatToSharpMap ==
  [noteName \in {"C", "D", "E", "F", "G", "A", "B"} |->
     CASE noteName = "C" -> "B"
       [] noteName = "D" -> "C#"
       [] noteName = "E" -> "D#"
       [] noteName = "F" -> "E"
       [] noteName = "G" -> "F#"
       [] noteName = "A" -> "G#"
       [] noteName = "B" -> "A#"]

\* A value given to formatMidiNote: a string, or an object with the
\* properties number, name, accidental and octave, each of which may be
\* missing.
NoteString(text) == [type |-> "string", text |-> text]

NoteObject(number, name, accidental, octave) ==
  [type |-> "object", number |-> number, name |-> name,
   accidental |-> accidental, octave |-> octave]

\* note.accidental || '' (line 139).
accidentalOf(note) ==
  IF note.accidental = Undef \/ note.accidental = Val("") THEN ""
  ELSE Get(note.accidental)

\* formatMidiNote without the octave adjustment of Cb.
formatMidiNoteSameOctave(note) ==
  IF note.type = "string" THEN note.text
  ELSE IF note.number # Undef THEN getMidiNoteName(Get(note.number))
  ELSE IF accidentalOf(note) = "b" /\ note.name \in DOMAIN flatToSharpMap
  THEN flatToSharpMap[note.name] \o ToString(note.octave)
  ELSE note.name \o accidentalOf(note) \o ToString(note.octave)

\* formatMidiNote(note) (lines 123-167).
formatMidiNote(note) ==
  IF note.type = "string" THEN note.text
  ELSE IF note.number # Undef THEN getMidiNoteName(Get(note.number))
  ELSE LET noteName   == note.name
           octave     == note.octave
           accidental == accidentalOf(note)
       IN IF accidental = "b" /\ noteName \in DOMAIN flatToSharpMap
          THEN IF noteName = "C"
               THEN flatToSharpMap[noteName] \o ToString(octave - 1)
               ELSE flatToSharpMap[noteName] \o ToString(octave)
          ELSE noteName \o accidental \o ToString(octave)

(***************************************************************************)
(* MidiRecorder                                                            *)
(***************************************************************************)
\* Velocities are kept in hundredths: e.velocity 0.8 is 80.
VelocityScale == 100
Velocities == {0, 80}

\* The messages useMidiConnectionManager's listeners hand to onMidiMessage.
NoteOnMsg(n, v, t) ==
  [type |-> "noteon", note |-> Val(n), velocity |-> Val(v), timestamp |-> Val(t),
   recordTime |-> Undef]

NoteOffMsg(n, t) ==
  [type |-> "noteoff", note |-> Val(n), velocity |-> Undef, timestamp |-> Val(t),
   recordTime |-> Undef]

\* Only controller 64, the sustain pedal, is forwarded (lines 155-169).
ControlChangeMsg(isOn, t) ==
  [type |-> "controlchange", note |-> Undef, velocity |-> Undef,
   timestamp |-> Val(t), recordTime |-> Undef, controller |-> 64,
   control |-> "sustain", isOn |-> isOn]

NoteMessagesAt(t) ==
  { NoteOnMsg(n, v, t) : n \in Notes, v \in Velocities }
    \cup { NoteOffMsg(n, t) : n \in Notes }

\* The messages fed to the recorder.
MessagesAt(t) == NoteMessagesAt(t) \cup { ControlChangeMsg(TRUE, t) }

\* The recorder's closure variables (lines 120-123) as one record.
NewRecorder ==
  [events |-> << >>, isRecording |-> FALSE, startTime |-> Undef, stopTime |-> Undef]

\* The mutation of startRecording: the buffer of the earlier session is kept.
startRecordingKeepsEvents(r, t) ==
  [r EXCEPT !.isRecording = TRUE, !.startTime = Val(t), !.stopTime = Undef]

\* startRecording() at Date.now() = t.
startRecording(r, t) ==
  [events |-> << >>, isRecording |-> TRUE, startTime |-> Val(t), stopTime |-> Undef]

\* The mutation of stopRecording: the stop time is not taken.
stopRecordingKeepsTime(r, t) == [r EXCEPT !.isRecording = FALSE]

\* stopRecording() at Date.now() = t.
stopRecording(r, t) == [r EXCEPT !.isRecording = FALSE, !.stopTime = Val(t)]

\* Date.now() - startTime: a null startTime counts as 0.
RelativeTime(t, start) == IF start = Undef THEN t ELSE t - Get(start)

\* processMidiMessage(message) at Date.now() = t.
processMidiMessage(r, message, t) ==
  IF ~r.isRecording THEN r
  ELSE [r EXCEPT !.events =
          Append(@, [message EXCEPT !.recordTime = Val(RelativeTime(t, r.startTime))])]

\* clearRecording(): the recording flag is left as it is.
clearRecording(r) ==
  [r EXCEPT !.events = << >>, !.startTime = Undef, !.stopTime = Undef]

\* JSON.stringify leaves out the properties whose value is undefined.
JsonObject(obj) ==
  [k \in { j \in DOMAIN obj : obj[j] # Undef } |-> obj[k]]

\* The mutation of ExportedEvent: the time is written as recordTime.
ExportedEventRenamed(event) ==
  JsonObject([type |-> Val(event.type), note |-> event.note,
              velocity |-> event.velocity, recordTime |-> event.recordTime])

\* One element of exportToJSON's events (lines 331-336).
ExportedEvent(event) ==
  JsonObject([type |-> Val(event.type), note |-> event.note,
              velocity |-> event.velocity, time |-> event.recordTime])

\* exportToJSON(): the document that JSON.stringify writes.
exportToJSON(r) ==
  [kind |-> "object",
   startTime |-> r.startTime,
   stopTime |-> r.stopTime,
   duration |-> IF OrElse(r.stopTime, Undef) # Undef
                THEN Val(Get(r.stopTime) - Get(OrElse(r.startTime, Val(0))))
                ELSE Undef,
   events |-> [kind |-> "array",
               items |-> [i \in 1..Len(r.events) |-> Val(ExportedEvent(r.events[i]))]]]

\* Texts on which JSON.parse throws, and the text "null".
InvalidJson == [kind |-> "invalid"]
JsonNull == [kind |-> "null"]

\* obj[k] of a parsed object: undefined when the property is absent.
Field(obj, k) == IF k \in DOMAIN obj THEN obj[k] ELSE Undef

\* The callback of data.events.map (lines 357-367).  rawNote is left out: no
\* consumer in the model reads it, and getMidiNoteNumber never throws.
ImportedEvent(item, start) ==
  LET event == Get(item)
      time  == Field(event, "time")
  IN [type |-> IF "type" \in DOMAIN event THEN Get(event["type"]) ELSE "undefined",
      note |-> Field(event, "note"),
      velocity |-> Field(event, "velocity"),
      recordTime |-> time,
      timestamp |-> IF time = Undef THEN Undef ELSE Val(Get(start) + Get(time))]

\* importFromJSON(jsonString) at Date.now() = t: the value returned and the
\* recorder it leaves.  Reading a property of a null element throws inside
\* map, after startTime and stopTime were assigned.
importFromJSON(r, doc, t) ==
  IF doc.kind # "object" THEN [ok |-> FALSE, rec |-> r]
  ELSE IF doc.events.kind # "array" THEN [ok |-> FALSE, rec |-> r]
  ELSE LET start == OrElse(doc.startTime, Val(t))
           stop  == OrElse(doc.stopTime, Undef)
           items == doc.events.items
           timed == [r EXCEPT !.startTime = start, !.stopTime = stop]
       IN IF \E i \in 1..Len(items) : items[i] = Undef
          THEN [ok |-> FALSE, rec |-> timed]
          ELSE [ok |-> TRUE,
                rec |-> [timed EXCEPT !.events =
                           [i \in 1..Len(items) |-> ImportedEvent(items[i], start)]]]

\* The (type, note, velocity, time) of a buffered event.
EventTuple(event) == << event.type, event.note, event.velocity, event.recordTime >>

\* encodeInt32(value) (lines 456-463).
encodeInt32(value) ==
  << (value \div 16777216) % 256, (value \div 65536) % 256,
     (value \div 256) % 256, value % 256 >>

\* The while loop pushing each byte at the end of bytes.
RECURSIVE EncodeLoopLowFirst(_, _)
EncodeLoopLowFirst(remaining, bytes) ==
  IF remaining = 0 THEN bytes
  ELSE LET low  == remaining % 128
           byte == IF Len(bytes) > 0 THEN low + 128 ELSE low
       IN EncodeLoopLowFirst(remaining \div 128, bytes \o << byte >>)

\* The while loop of encodeVariableLength (lines 432-441): the bytes of
\* remaining are put in front of bytes, all but the first one made flagged.
RECURSIVE EncodeLoop(_, _)
EncodeLoop(remaining, bytes) ==
  IF remaining = 0 THEN bytes
  ELSE LET low  == remaining % 128
           byte == IF Len(bytes) > 0 THEN low + 128 ELSE low
       IN EncodeLoop(remaining \div 128, << byte >> \o bytes)

\* bytes[i] |= 0x80 for every byte but the last (lines 444-446).
FlagAllButLast(bytes) ==
  [i \in 1..Len(bytes) |->
     IF i < Len(bytes) /\ bytes[i] < 128 THEN bytes[i] + 128 ELSE bytes[i]]

\* encodeVariableLength(value) for value >= 0 (lines 420-449).
encodeVariableLength(value) ==
  IF value < 128 THEN << value >> ELSE FlagAllButLast(EncodeLoop(value, << >>))

\* headerChunk (lines 235-241).
headerChunk == << 77, 84, 104, 100, 0, 0, 0, 6, 0, 1, 0, 2, 1, 224 >>

\* The chunk id 'MTrk'.
MTrk == << 77, 84, 114, 107 >>

\* track1Events (lines 244-255): the tempo track.
track1Events ==
  MTrk \o << 0, 0, 0, 20 >>
       \o << 0, 255, 81, 3, 7, 161, 32 >>
       \o << 0, 255, 47, 0 >>

\* The events left in the order of the buffer.
SortByTimeUnsorted(evs) == evs

\* [...events].sort((a, b) => a.recordTime - b.recordTime): a stable sort.
RECURSIVE SortByTime(_)
SortByTime(evs) ==
  IF Len(evs) <= 1 THEN evs
  ELSE LET rest == SortByTime(SubSeq(evs, 1, Len(evs) - 1))
           last == evs[Len(evs)]
           keep == { i \in 1..Len(rest) :
                       Get(rest[i].recordTime) <= Get(last.recordTime) }
           n    == Cardinality(keep)
       IN SubSeq(rest, 1, n) \o << last >> \o SubSeq(rest, n + 1, Len(rest))

\* A value stored into a Uint8Array: null becomes 0.
Byte(v) == IF v = Undef THEN 0 ELSE Get(v) % 256

IsNoteOn(event) ==
  event.type = "noteon" /\ event.velocity # Undef /\ Get(event.velocity) > 0

IsNoteOff(event) ==
  \/ event.type = "noteoff"
  \/ event.type = "noteon" /\ event.velocity = Val(0)

\* What the forEach of exportToMIDI pushes for one event after its delta
\* (lines 278-295): nothing for a message that is neither.
EventBytes(event) ==
  IF IsNoteOn(event)
  THEN << 144, Byte(getMidiNoteNumber(event.note)),
          RoundDiv(Get(event.velocity) * 127, VelocityScale) >>
  ELSE IF IsNoteOff(event)
  THEN << 128, Byte(getMidiNoteNumber(event.note)), 64 >>
  ELSE << >>

\* Math.round(event.recordTime * 480 / 500)
eventTimeInTicks(event) == RoundDiv(Get(event.recordTime) * 480, 500)

\* The forEach over sortedEvents from index i on (lines 268-296).
RECURSIVE TrackEvents(_, _, _)
TrackEvents(sortedEvents, i, prevTime) ==
  IF i > Len(sortedEvents) THEN << >>
  ELSE LET ticks == eventTimeInTicks(sortedEvents[i])
       IN encodeVariableLength(ticks - prevTime)
            \o EventBytes(sortedEvents[i])
            \o TrackEvents(sortedEvents, i + 1, ticks)

\* track2EventArray with its end-of-track event (lines 258-300).
track2EventArray(evs) == TrackEvents(SortByTime(evs), 1, 0) \o << 0, 255, 47, 0 >>

\* track2Events (lines 303-310).
track2Events(evs) ==
  MTrk \o encodeInt32(Len(track2EventArray(evs))) \o track2EventArray(evs)

\* exportToMIDI() (lines 230-320).
exportToMIDI(evs) == headerChunk \o track1Events \o track2Events(evs)

\* The buffer's events that playback schedules, as timers (lines 185-202):
\* a message that is neither a note-on nor a note-off gets none.
RECURSIVE EventTimers(_, _)
EventTimers(evs, i) ==
  IF i > Len(evs) THEN << >>
  ELSE LET event == evs[i]
           timer == [delay |-> Get(event.recordTime),
                     fn |-> IF IsNoteOn(event) THEN "noteOn" ELSE "noteOff",
                     note |-> event.note,
                     velocity |-> IF IsNoteOn(event) THEN event.velocity ELSE Undef]
       IN (IF IsNoteOn(event) \/ IsNoteOff(event) THEN << timer >> ELSE << >>)
            \o EventTimers(evs, i + 1)

\* Math.max(...events.map(event => event.recordTime))
RECURSIVE MaxRecordTime(_)
MaxRecordTime(evs) ==
  IF Len(evs) = 1 THEN Get(evs[1].recordTime)
  ELSE LET m == MaxRecordTime(SubSeq(evs, 2, Len(evs)))
           t == Get(evs[1].recordTime)
       IN IF t > m THEN t ELSE m

\* The buffer past the end time by which onFinish is called (line 213).
FinishDelayMs == 100

\* The mutation of completionTimeout: no buffer after the last event.
completionAtEnd(evs) ==
  [delay |-> MaxRecordTime(evs), fn |-> "finish", note |-> Undef,
   velocity |-> Undef]

completionTimeout(evs) ==
  [delay |-> MaxRecordTime(evs) + FinishDelayMs, fn |-> "finish", note |-> Undef,
   velocity |-> Undef]

\* What a callback invocation looks like to the caller of playRecording: the
\* function, its arguments and the time since playRecording was called.
Call(timer) ==
  [fn |-> timer.fn, note |-> timer.note, velocity |-> timer.velocity,
   at |-> timer.delay]

\* playRecording(noteOnFunction, noteOffFunction, onFinish): the handle's
\* closure (timeouts, isStopped) and the callbacks invoked so far.  An empty
\* buffer calls onFinish at once and schedules nothing.
playRecording(evs) ==
  IF Len(evs) = 0
  THEN [timeouts |-> << >>, isStopped |-> FALSE,
        calls |-> << [fn |-> "finish", note |-> Undef, velocity |-> Undef,
                      at |-> 0] >>,
        stopReturned |-> FALSE, late |-> FALSE]
  ELSE [timeouts |-> EventTimers(evs, 1) \o << completionTimeout(evs) >>,
        isStopped |-> FALSE, calls |-> << >>, stopReturned |-> FALSE,
        late |-> FALSE]

\* No-op stop: the mutation of StopHandle.
StopNothing(h) == h

\* handle.stop() (lines 219-222): sets the flag and clears every timeout.
StopHandle(h) == [h EXCEPT !.isStopped = TRUE, !.timeouts = << >>]

\* The timer of the handle that is due next: the shortest delay, the one
\* scheduled first among equals.
IsDue(h, i) ==
  \A j \in 1..Len(h.timeouts) :
    \/ h.timeouts[j].delay > h.timeouts[i].delay
    \/ h.timeouts[j].delay = h.timeouts[i].delay /\ j >= i

\* A timeout's callback runs (lines 187-191, 195-199, 209-213).  late records
\* a callback invoked after stop() had returned.
FireTimeout(h, i) ==
  LET timer == h.timeouts[i]
      rest  == [h EXCEPT !.timeouts = RemoveAt(@, i)]
  IN IF h.isStopped THEN rest
     ELSE [rest EXCEPT !.calls = Append(@, Call(timer)),
                       !.late = @ \/ h.stopReturned]

\* The clock advances in steps of ClockStep milliseconds.
ClockStep == 200

\* Documents handed to importFromJSON besides the recorder's own export: no
\* events property, events that is a text, an events array holding null, and
\* the export of an earlier session.
MissingEventsDoc ==
  [kind |-> "object", startTime |-> Val(ClockStep), stopTime |-> Val(2 * ClockStep),
   duration |-> Val(ClockStep), events |-> [kind |-> "missing", items |-> << >>]]

TextEventsDoc == [MissingEventsDoc EXCEPT !.events.kind = "string"]

NullElementDoc ==
  [MissingEventsDoc EXCEPT !.events = [kind |-> "array", items |-> << Undef >>]]

SampleDoc ==
  exportToJSON(stopRecording(
    processMidiMessage(startRecording(NewRecorder, ClockStep),
                       NoteOnMsg("D4", 80, 2 * ClockStep), 2 * ClockStep),
    3 * ClockStep))

ImportDocs(r) ==
  { InvalidJson, JsonNull, MissingEventsDoc, TextEventsDoc, NullElementDoc,
    SampleDoc, exportToJSON(r) }

\* The messages a recording session receives: the note-ons of C4 (one of
\* them with velocity 0), its note-off, a second note and the sustain pedal.
RecordedMessagesAt(t) ==
  { NoteOnMsg("C4", v, t) : v \in Velocities }
    \cup { NoteOffMsg("C4", t), NoteOnMsg("D4", 80, t), ControlChangeMsg(TRUE, t) }

\* What no method of the recorder touches.
RecFrame == UNCHANGED << connVars, playVars, pianoVars, timingVars, helperVars >>

\* What the caller of the recorder has seen of a session: when it called
\* startRecording, how often processMidiMessage since, when stopRecording.
SessionStarted(t) == Val([start |-> t, calls |-> 0, stop |-> Undef])

SessionOpen == session # Undef /\ Get(session).stop = Undef

StartRecording ==
  /\ recorder' = startRecording(recorder, now)
  /\ recOp' = "startRecording"
  /\ session' = SessionStarted(now)
  /\ UNCHANGED << now, importOk >>
  /\ RecFrame

StopRecording ==
  /\ recorder' = stopRecording(recorder, now)
  /\ recOp' = "stopRecording"
  /\ session' = IF SessionOpen THEN Val([Get(session) EXCEPT !.stop = Val(now)])
                 ELSE Undef
  /\ UNCHANGED << now, importOk >>
  /\ RecFrame

ProcessMidiMessage(message) ==
  /\ Len(recorder.events) < MaxBuffer
  /\ recorder' = processMidiMessage(recorder, message, now)
  /\ recOp' = "processMidiMessage"
  /\ session' = IF SessionOpen THEN Val([Get(session) EXCEPT !.calls = @ + 1])
                 ELSE Undef
  /\ UNCHANGED << now, importOk >>
  /\ RecFrame

ClearRecording ==
  /\ recorder' = clearRecording(recorder)
  /\ recOp' = "clearRecording"
  /\ session' = Undef
  /\ UNCHANGED << now, importOk >>
  /\ RecFrame

ImportFromJSON(doc) ==
  /\ LET result == importFromJSON(recorder, doc, now)
     IN /\ recorder' = result.rec
        /\ importOk' = result.ok
  /\ recOp' = "importFromJSON"
  /\ session' = Undef
  /\ UNCHANGED now
  /\ RecFrame

\* Time passes.
Tick ==
  /\ now < MaxClock * ClockStep
  /\ now' = now + ClockStep
  /\ recOp' = "tick"
  /\ UNCHANGED << recorder, importOk, session >>
  /\ RecFrame

RecInit ==
  /\ recorder = NewRecorder
  /\ now = ClockStep
  /\ importOk = TRUE
  /\ recOp = "createMidiRecorder"
  /\ session = Undef

RecNext ==
  \/ StartRecording
  \/ StopRecording
  \/ \E message \in RecordedMessagesAt(now) : ProcessMidiMessage(message)
  \/ ClearRecording
  \/ \E doc \in ImportDocs(recorder) : ImportFromJSON(doc)
  \/ Tick

\* Sequences over S of length at most n.
SeqsUpTo(S, n) == UNION { [1..k -> S] : k \in 0..n }

Gaps == {0, ClockStep}

\* A session: the messages arrive gap milliseconds apart, the first with
\* the start of the recording.
RECURSIVE RecordAll(_, _, _, _)
RecordAll(r, messages, t, gap) ==
  IF messages = << >> THEN r
  ELSE RecordAll(processMidiMessage(r, [Head(messages) EXCEPT !.timestamp = Val(t)], t),
                 Tail(messages), t + gap, gap)

RecordSession(messages, gap) ==
  stopRecording(RecordAll(startRecording(NewRecorder, ClockStep), messages,
                          ClockStep, gap),
                ClockStep + Len(messages) * gap)

\* The recorders playback starts from.
PlayRecorders ==
  { RecordSession(messages, gap) :
      messages \in SeqsUpTo(MessagesAt(ClockStep), MaxPlayed), gap \in Gaps }

\* What playback never touches.
PlayFrame == UNCHANGED << connVars, recVars, pianoVars, timingVars, helperVars >>

\* The mutation of PlayRecording: the playback consumes the buffer.
PlayRecordingConsumes ==
  /\ Len(playbacks) < MaxPlaybacks
  /\ playbacks' = Append(playbacks, playRecording(recorder.events))
  /\ recorder' = [recorder EXCEPT !.events = << >>]
  /\ UNCHANGED << connVars, now, importOk, recOp, session, pianoVars, timingVars,
               helperVars >>

\* ---- playRecording(...) returns a handle (lines 175-224).
PlayRecording ==
  /\ Len(playbacks) < MaxPlaybacks
  /\ playbacks' = Append(playbacks, playRecording(recorder.events))
  /\ PlayFrame

\* ---- a timeout of playback p fires.
TimeoutFires(p, i) ==
  /\ p \in 1..Len(playbacks)
  /\ i \in 1..Len(playbacks[p].timeouts)
  /\ IsDue(playbacks[p], i)
  /\ playbacks' = [playbacks EXCEPT ![p] = FireTimeout(@, i)]
  /\ PlayFrame

\* ---- stop() of handle p is called and returns.
StopPlayback(p) ==
  /\ p \in 1..Len(playbacks)
  /\ ~playbacks[p].stopReturned
  /\ playbacks' = [playbacks EXCEPT ![p] = [StopHandle(@) EXCEPT !.stopReturned = TRUE]]
  /\ PlayFrame

PlayQuiet == playbacks = << >>

PlayInit ==
  /\ recorder \in PlayRecorders
  /\ now = recorder.stopTime[1]
  /\ importOk = TRUE
  /\ recOp = "stopRecording"
  /\ session = Undef
  /\ playbacks = << >>

PlayNext ==
  \/ PlayRecording
  \/ \E p \in 1..Len(playbacks) : \E i \in 1..Len(playbacks[p].timeouts) : TimeoutFires(p, i)
  \/ \E p \in 1..Len(playbacks) : StopPlayback(p)

(***************************************************************************)
(* usePianoNotes.  React queues the updates of a component and applies     *)
(* them when it renders: a plain value replaces the state; an updater      *)
(* function is called with the state the queue has produced so far.  The   *)
(* first update of a component with nothing queued is computed at once, in *)
(* the setState call; the others when the component renders, and a         *)
(* setState called from an updater at that time (a render-phase update) is *)
(* applied after the whole queue.                                          *)
(***************************************************************************)
Sources == {"keyboard", "mouse", "midi", "program"}

\* The useState initial value of notesBySource (lines 21-26).
NoSourceNotes == [s \in Sources |-> {}]

\* allActiveNotes: the notes of every source's set (lines 42-45).
AllActiveNotes(bySource) == UNION { bySource[s] : s \in Sources }

\* setNotesBySource(prev => newNotesBySource) whose updater ends with
\* setActiveNotes(Array.from(allActiveNotes)).  prev is the state with the
\* updates queued so far applied (pendingNotes, the rendered state when
\* nothing is queued).
UpdateNotes(k, newNotesBySource) ==
  IF ~k.dirty
  THEN [k EXCEPT !.pendingNotes = newNotesBySource,
                 !.directActive = Val(AllActiveNotes(newNotesBySource)),
                 !.dirty = TRUE]
  ELSE [k EXCEPT !.pendingNotes = newNotesBySource,
                 !.phaseActive = Val(AllActiveNotes(newNotesBySource))]

\* activateNote as a toggle: a note already in the source's set is taken out.
activateNoteToggles(k, note, source) ==
  UpdateNotes(k, [k.pendingNotes EXCEPT
                    ![source] = IF note \in @ THEN @ \ {note} ELSE @ \cup {note}])

\* activateNote(note, source) (lines 33-52).
activateNote(k, note, source) ==
  UpdateNotes(k, [k.pendingNotes EXCEPT ![source] = @ \cup {note}])

\* deactivateNote(note, source) (lines 59-78).
deactivateNote(k, note, source) ==
  UpdateNotes(k, [k.pendingNotes EXCEPT ![source] = @ \ {note}])

\* clearSource emptying the set of every source.
clearSourceClearsAll(k, source) ==
  UpdateNotes(k, NoSourceNotes)

\* clearSource(source) (lines 84-100).
clearSource(k, source) ==
  UpdateNotes(k, [k.pendingNotes EXCEPT ![source] = {}])

\* clearAllNotes() (lines 105-113): two plain values.
clearAllNotes(k) ==
  [k EXCEPT !.directActive = Val({}), !.pendingNotes = NoSourceNotes,
            !.dirty = TRUE]

\* React renders the component: the queued values become the state.
CommitState(k) ==
  [k EXCEPT !.notesBySource = k.pendingNotes,
            !.activeNotes = IF k.phaseActive # Undef THEN Get(k.phaseActive)
                            ELSE IF k.directActive # Undef THEN Get(k.directActive)
                            ELSE k.activeNotes,
            !.isSustainActive = IF k.pendingSustain # Undef
                                THEN Get(k.pendingSustain) ELSE k.isSustainActive,
            !.directActive = Undef, !.phaseActive = Undef,
            !.pendingSustain = Undef, !.dirty = FALSE]

\* The hooks' state after the first render; isLoaded turns true when the
\* sampler has fetched its samples (useAudioEngine lines 98-101).
NewPiano ==
  [notesBySource |-> NoSourceNotes, activeNotes |-> {},
   pendingNotes |-> NoSourceNotes, directActive |-> Undef, phaseActive |-> Undef,
   dirty |-> FALSE, sounding |-> {}, isSustainActive |-> FALSE,
   pendingSustain |-> Undef, isLoaded |-> FALSE, audioStarted |-> FALSE]

\* What the hook's methods leave alone.
NotesFrame ==
  UNCHANGED << connVars, recVars, playVars, timingVars, helperVars, component,
               midiClosure >>

\* A call from the code that uses the hook, in the current batch.
InBatch == batch < MaxBatch /\ batch' = batch + 1

ActivateNote(note, source) ==
  /\ InBatch
  /\ piano' = activateNote(piano, note, source)
  /\ NotesFrame

DeactivateNote(note, source) ==
  /\ InBatch
  /\ piano' = deactivateNote(piano, note, source)
  /\ NotesFrame

ClearSource(source) ==
  /\ InBatch
  /\ piano' = clearSource(piano, source)
  /\ NotesFrame

ClearAllNotes ==
  /\ InBatch
  /\ piano' = clearAllNotes(piano)
  /\ NotesFrame

\* ---- React renders the component.
Commit ==
  /\ piano.dirty
  /\ piano' = CommitState(piano)
  /\ batch' = 0
  /\ NotesFrame

PianoQuiet ==
  /\ piano = NewPiano
  /\ component = "Piano"
  /\ midiClosure = Undef
  /\ batch = 0

NotesNext ==
  \/ \E note \in Notes, source \in Sources : ActivateNote(note, source)
  \/ \E note \in Notes, source \in Sources : DeactivateNote(note, source)
  \/ \E source \in Sources : ClearSource(source)
  \/ ClearAllNotes
  \/ Commit

(***************************************************************************)
(* useAudioEngine and the components' handlers.  A handler reads the       *)
(* state of the render that created it: c is that closure.                 *)
(***************************************************************************)
\* What the callbacks of a render close over.
PianoClosure(k) ==
  [sustain |-> k.isSustainActive, loaded |-> k.isLoaded, started |-> k.audioStarted]

\* playNote(note, velocity) (useAudioEngine lines 183-203).
playNote(c, k, note) ==
  IF ~c.loaded THEN k ELSE [k EXCEPT !.sounding = @ \cup {note}]

\* stopNote(note) (lines 209-228).
stopNote(c, k, note) ==
  IF ~c.loaded THEN k
  ELSE IF ~c.sustain THEN [k EXCEPT !.sounding = @ \ {note}]
  ELSE k

\* stopAllNotes() (lines 233-238).
stopAllNotes(c, k) == IF ~c.loaded THEN k ELSE [k EXCEPT !.sounding = {}]

\* setIsSustainActive(active): React drops an update that changes nothing
\* when nothing else is queued.
SetIsSustainActive(k, active) ==
  IF ~k.dirty /\ active = k.isSustainActive THEN k
  ELSE [k EXCEPT !.pendingSustain = Val(active), !.dirty = TRUE]

\* setSustain(active) (lines 244-257).
setSustain(c, k, active) ==
  IF ~active THEN stopAllNotes(c, SetIsSustainActive(k, active))
  ELSE SetIsSustainActive(k, active)

\* Piano's handleNoteOn(note, source) (Piano.jsx lines 123-134).
handleNoteOn(c, k, note, source) == playNote(c, activateNote(k, note, source), note)

\* Piano's handleNoteOff(note, source) (Piano.jsx lines 137-152).
handleNoteOff(c, k, note, source) ==
  LET released == deactivateNote(k, note, source)
  IN IF ~c.sustain THEN stopNote(c, released, note) ELSE released

\* Piano's handleMidiMessage(message) (Piano.jsx lines 176-213).
PianoHandleMidiMessage(c, k, message) ==
  IF ~c.started THEN k
  ELSE IF message.type = "noteon"
  THEN IF message.velocity = Val(0)
       THEN handleNoteOff(c, k, Get(message.note), "midi")
       ELSE handleNoteOn(c, k, Get(message.note), "midi")
  ELSE IF message.type = "noteoff"
  THEN handleNoteOff(c, k, Get(message.note), "midi")
  ELSE IF message.type = "controlchange" /\ message.controller = 64
  THEN setSustain(c, k, message.isOn)
  ELSE k

\* PianoProvider's handleMidiMessage(event) (PianoContext.jsx lines 60-77).
ProviderHandleMidiMessage(c, k, event) ==
  IF ~c.started THEN k
  ELSE IF event.type = "noteon"
  THEN playNote(c, activateNote(k, Get(event.note), "midi"), Get(event.note))
  ELSE IF event.type = "noteoff"
  THEN LET released == deactivateNote(k, Get(event.note), "midi")
       IN IF ~c.sustain THEN stopNote(c, released, Get(event.note)) ELSE released
  ELSE IF event.type = "controlchange" /\ event.control = "sustain"
  THEN setSustain(c, k, event.isOn)
  ELSE k

\* The handler the component gives to the connection manager.
HandleMidiMessage(comp, c, k, message) ==
  IF comp = "Piano" THEN PianoHandleMidiMessage(c, k, message)
  ELSE ProviderHandleMidiMessage(c, k, message)

Components == {"Piano", "PianoProvider"}

\* The sources of Piano's own handlers: the computer keyboard and the mouse.
UserSources == {"keyboard", "mouse"}

\* The messages a device sends.
DeviceMessages ==
  NoteMessagesAt(0) \cup { ControlChangeMsg(isOn, 0) : isOn \in BOOLEAN }

\* What the component's handlers leave alone.
PianoFrame ==
  UNCHANGED << connVars, recVars, playVars, timingVars, helperVars, component >>

\* ---- Tone.start() resolved: setAudioStarted(true), and React renders.
StartAudio ==
  /\ ~piano.audioStarted
  /\ piano' = CommitState([piano EXCEPT !.audioStarted = TRUE])
  /\ batch' = 0
  /\ UNCHANGED midiClosure
  /\ PianoFrame

\* ---- the sampler's onload: setIsLoaded(true), and React renders.
SamplesLoaded ==
  /\ ~piano.isLoaded
  /\ piano' = CommitState([piano EXCEPT !.isLoaded = TRUE])
  /\ batch' = 0
  /\ UNCHANGED midiClosure
  /\ PianoFrame

\* ---- a device is connected: its listeners call the onMidiMessage of the
\* render in which connectToDevice ran (setupMidiHandlers, lines 113-174).
\* Piano renders its MidiManager only once the audio has started.
ConnectMidi ==
  /\ ~piano.dirty
  /\ component = "Piano" => piano.audioStarted
  /\ midiClosure # Val(PianoClosure(piano))
  /\ midiClosure' = Val(PianoClosure(piano))
  /\ UNCHANGED << piano, batch >>
  /\ PianoFrame

\* A handler of a key, mouse or pointer event of Piano: React renders before
\* the next event is dispatched.
UserEvent(k) ==
  /\ component = "Piano"
  /\ piano.audioStarted
  /\ piano' = CommitState(k)
  /\ batch' = 0
  /\ UNCHANGED midiClosure
  /\ PianoFrame

\* ---- a key of the computer keyboard or of the drawn keyboard goes down.
PressKey(note, source) ==
  UserEvent(handleNoteOn(PianoClosure(piano), piano, note, source))

\* ---- ... and up.
ReleaseKey(note, source) ==
  UserEvent(handleNoteOff(PianoClosure(piano), piano, note, source))

\* ---- the sustain button or the space bar: setSustain(active).
UserSustain(active) ==
  UserEvent(setSustain(PianoClosure(piano), piano, active))

\* ---- the device sends a message: the listener calls the handler it holds.
MidiMessage(message) ==
  /\ midiClosure # Undef
  /\ InBatch
  /\ piano' = HandleMidiMessage(component, Get(midiClosure), piano, message)
  /\ UNCHANGED midiClosure
  /\ PianoFrame

PianoInit ==
  /\ piano = NewPiano
  /\ component \in Components
  /\ midiClosure = Undef
  /\ batch = 0

PianoNext ==
  \/ StartAudio
  \/ SamplesLoaded
  \/ ConnectMidi
  \/ \E note \in Notes, source \in UserSources : PressKey(note, source)
  \/ \E note \in Notes, source \in UserSources : ReleaseKey(note, source)
  \/ \E active \in BOOLEAN : UserSustain(active)
  \/ \E message \in DeviceMessages : MidiMessage(message)
  \/ Commit

(***************************************************************************)
(* NoteRecognitionModule: createTimingAnalyzer                             *)
(***************************************************************************)
\* noteTimings = {} (line 141): a function from the note numbers seen.
NoTimings == [key \in {} |-> Undef]

\* The analyzer's handleMidiMessage(message) (lines 150-168).  The key is the
\* note's number, or null for a name that midiUtils does not list.
TimingHandleMidiMessage(noteTimings, message) ==
  LET noteNum == getMidiNoteNumber(message.note)
      known   == noteNum \in DOMAIN noteTimings
  IN IF IsNoteOn(message)
     THEN [key \in DOMAIN noteTimings \cup {noteNum} |->
             IF key = noteNum
             THEN [startTime |-> message.timestamp, endTime |-> Undef,
                   duration |-> Undef]
             ELSE noteTimings[key]]
     ELSE IF IsNoteOff(message) /\ known
               /\ OrElse(noteTimings[noteNum].startTime, Undef) # Undef
     THEN [noteTimings EXCEPT
             ![noteNum].endTime = message.timestamp,
             ![noteNum].duration =
                Val(Get(message.timestamp) - Get(noteTimings[noteNum].startTime))]
     ELSE noteTimings

\* The analyzer after a sequence of messages.
RECURSIVE FeedTimings(_, _)
FeedTimings(noteTimings, messages) ==
  IF messages = << >> THEN noteTimings
  ELSE FeedTimings(TimingHandleMidiMessage(noteTimings, Head(messages)),
                   Tail(messages))

\* The analyzers reached by up to two messages, one clock step apart.
TimingStates ==
  { FeedTimings(NoTimings, messages) :
      messages \in { << >> } \cup { << m >> : m \in NoteMessagesAt(ClockStep) }
                    \cup { << m1, m2 >> : m1 \in NoteMessagesAt(ClockStep),
                                          m2 \in NoteMessagesAt(2 * ClockStep) } }

\* metronomeTempo = 60 (line 142) and the milliseconds of a minute (line 143).
DefaultTempo == 60
MsPerMinute == 60000

\* createTimingAnalyzer(): the closure variables (lines 141-143).
NewAnalyzer ==
  [noteTimings |-> NoTimings, metronomeTempo |-> DefaultTempo,
   beatDuration |-> MsPerMinute \div DefaultTempo]

\* The mutation of setTempo: the beat duration is left as it was.
setTempoKeepsBeat(a, bpm) == [a EXCEPT !.metronomeTempo = bpm]

\* setTempo(bpm) (lines 145-148), for a bpm that divides 60000.
setTempo(a, bpm) ==
  [a EXCEPT !.metronomeTempo = bpm, !.beatDuration = MsPerMinute \div bpm]

\* getNoteTimings() (lines 170-172): a copy of noteTimings.
getNoteTimings(a) == a.noteTimings

\* |x|
Abs(x) == IF x < 0 THEN -x ELSE x

\* Math.min(x, y)
Min(x, y) == IF x < y THEN x ELSE y

\* One entry of analyzeTiming's results (lines 182-191), expectedDuration > 0.
\* durationRatio is duration / expectedDuration, so that
\*   accuracy * 100 = 100 * (expected - min(|expected - duration|, expected)) / expected
\*   durationRatio > 1.2  iff  5 * duration > 6 * expected
\*   durationRatio < 0.8  iff  5 * duration < 4 * expected
TimingResult(duration, expectedDuration) ==
  [expected |-> expectedDuration,
   actual |-> duration,
   accuracy |-> RoundDiv(100 * (expectedDuration
                                  - Min(Abs(expectedDuration - duration), expectedDuration)),
                         expectedDuration),
   isTooLong |-> 5 * duration > 6 * expectedDuration,
   isTooShort |-> 5 * duration < 4 * expectedDuration]

\* analyzeTiming(expectedDuration) (lines 174-195): the notes whose duration
\* is null are skipped.
analyzeTiming(a, expectedDuration) ==
  [key \in { k \in DOMAIN a.noteTimings : a.noteTimings[k].duration # Undef } |->
     TimingResult(Get(a.noteTimings[key].duration), expectedDuration)]

\* analyzeRhythm() (lines 197-200).
analyzeRhythm(a) == analyzeTiming(a, a.beatDuration)

\* clear() (lines 202-206): the tempo is kept.
clearTimings(a) == [a EXCEPT !.noteTimings = NoTimings]

\* The timestamps of the messages given to the analyzer, and the tempos.
Timestamps == {0, 300, 800, 1000}
Tempos == {60, 120}

\* The messages given to the analyzer.
AnalyzerMessages == UNION { NoteMessagesAt(t) : t \in Timestamps }

\* What the analyzer's caller remembers of a note after message: the
\* timestamp of a note-on, nothing after any other message for the note.
Opened(o, message) ==
  [o EXCEPT ![Get(message.note)] =
     IF IsNoteOn(message) THEN message.timestamp ELSE Undef]

\* What the analyzer's methods leave alone.
TimingFrame == UNCHANGED << connVars, recVars, playVars, pianoVars, helperVars >>

\* ---- handleMidiMessage(message).
AnalyzerMessage(message) ==
  /\ analyzer' = [analyzer EXCEPT
                    !.noteTimings = TimingHandleMidiMessage(@, message)]
  /\ timingOp' = [op |-> "handleMidiMessage", arg |-> Val(message)]
  /\ opened' = Opened(opened, message)
  /\ TimingFrame

\* ---- setTempo(bpm).
SetTempo(bpm) ==
  /\ analyzer' = setTempo(analyzer, bpm)
  /\ timingOp' = [op |-> "setTempo", arg |-> Val(bpm)]
  /\ UNCHANGED opened
  /\ TimingFrame

\* ---- clear().
ClearTimings ==
  /\ analyzer' = clearTimings(analyzer)
  /\ timingOp' = [op |-> "clear", arg |-> Undef]
  /\ opened' = [n \in Notes |-> Undef]
  /\ TimingFrame

TimingQuiet ==
  /\ analyzer = NewAnalyzer
  /\ timingOp = [op |-> "createTimingAnalyzer", arg |-> Undef]
  /\ opened = [n \in Notes |-> Undef]

TimingNext ==
  \/ \E message \in AnalyzerMessages : AnalyzerMessage(message)
  \/ \E bpm \in Tempos : SetTempo(bpm)
  \/ ClearTimings

(***************************************************************************)
(* The helper functions formatMidiNote (midiUtils) and                     *)
(* encodeVariableLength (MidiRecorder), called with an argument.           *)
(***************************************************************************)
NoteLetters == {"C", "D", "E", "F", "G", "A", "B"}

\* The octaves of the 128 MIDI note numbers.
Octaves == -1 .. 9

\* note.accidental: missing, empty, a sharp or a flat.
Accidentals == { Undef, Val(""), Val("#"), Val("b") }

\* Notes given by name, accidental and octave.
SpelledNotes ==
  { NoteObject(Undef, l, a, o) : l \in NoteLetters, a \in Accidentals, o \in Octaves }

\* The arguments of formatMidiNote: strings, notes with a number, and
\* notes given by name, accidental and octave.
FormatArguments ==
  { NoteString("Db4"), NoteString("C#4"),
    NoteObject(Val(60), "C", Undef, 4), NoteObject(Val(61), "C", Val("#"), 4) }
    \cup SpelledNotes

\* The arguments of encodeVariableLength: the values around each change of
\* length, up to the largest 28-bit value.
EncodeArguments ==
  (0 .. 3) \cup (126 .. 130) \cup (254 .. 257) \cup (16382 .. 16385)
    \cup (2097150 .. 2097153) \cup (268435454 .. 268435455)
    \cup {8192, 1000000, 134217728}

HelperFrame == UNCHANGED << connVars, recVars, playVars, pianoVars, timingVars >>

\* ---- formatMidiNote(note) is called.
FormatMidiNote(note) ==
  /\ formatted' = Val([note |-> note, name |-> formatMidiNote(note)])
  /\ UNCHANGED encoded
  /\ HelperFrame

\* ---- encodeVariableLength(value) is called.
EncodeVariableLength(value) ==
  /\ encoded' = Val([value |-> value, bytes |-> encodeVariableLength(value)])
  /\ UNCHANGED formatted
  /\ HelperFrame

HelpersQuiet ==
  /\ formatted = Undef
  /\ encoded = Undef

HelpersNext ==
  \/ \E note \in FormatArguments : FormatMidiNote(note)
  \/ \E value \in EncodeArguments : EncodeVariableLength(value)

(***************************************************************************)
(* Specifications: each one runs a part of the library and leaves the      *)
(* rest as constructed.                                                    *)
(***************************************************************************)
InitConn == ConnInit /\ RecInit /\ PlayQuiet /\ PianoQuiet /\ TimingQuiet /\ HelpersQuiet

SpecConn == InitConn /\ [][ConnNext]_vars

\* The connection manager with what the browser and React do by themselves
\* sooner or later: the effect runs, enable() settles, the rest of
\* initializeWebMidi runs, a pending render is committed and a timer that was
\* set fires.  Nothing makes the user act.
ConnFairness ==
  /\ WF_vars(EffectMount)
  /\ WF_vars(InitEnabled \/ \E code \in {"NOT_SUPPORTED", "PERMISSION_DENIED"} : InitFailed(code))
  /\ WF_vars(InitListen)
  /\ WF_vars(Render)
  /\ WF_vars(AutoTimerFire)
  /\ WF_vars(RefreshTimerFire)
  /\ WF_vars(\E i \in 1..Len(timers) : RetryTimerFire(i))

SpecConnLive == InitConn /\ [][ConnNext]_vars /\ ConnFairness

\* The connection manager as constructed, with no device and no auto-connect.
ConnQuiet ==
  /\ ConnInit
  /\ autoConnect = FALSE
  /\ storeThrows = FALSE
  /\ ports = << >>
  /\ lastDevice = Null
  /\ storedHistory = << >>

InitRec == ConnQuiet /\ RecInit /\ PlayQuiet /\ PianoQuiet /\ TimingQuiet /\ HelpersQuiet

SpecRec == InitRec /\ [][RecNext]_vars

InitPlay == ConnQuiet /\ PlayInit /\ PianoQuiet /\ TimingQuiet /\ HelpersQuiet

SpecPlay == InitPlay /\ [][PlayNext]_vars

InitNotes == ConnQuiet /\ RecInit /\ PlayQuiet /\ PianoQuiet /\ TimingQuiet /\ HelpersQuiet

SpecNotes == InitNotes /\ [][NotesNext]_vars

InitPiano == ConnQuiet /\ RecInit /\ PlayQuiet /\ PianoInit /\ TimingQuiet /\ HelpersQuiet

SpecPiano == InitPiano /\ [][PianoNext]_vars

InitTiming == ConnQuiet /\ RecInit /\ PlayQuiet /\ PianoQuiet /\ TimingQuiet /\ HelpersQuiet

SpecTiming == InitTiming /\ [][TimingNext]_vars

InitHelpers == ConnQuiet /\ RecInit /\ PlayQuiet /\ PianoQuiet /\ TimingQuiet /\ HelpersQuiet

SpecHelpers == InitHelpers /\ [][HelpersNext]_vars

(***************************************************************************)
(* Properties of the connection manager                                    *)
(***************************************************************************)

\* C1: when the selected input device is removed by a hot-plug event, the
\* state right after the event is Disconnected, no device is selected and the
\* removed device is no longer enumerated.
C1_SelectedRemovalDisconnects ==
  [][ \A d \in Devices :
        (connectionStatus = CONNECTED /\ selectedInput = d
           /\ d \in Range(ports) /\ d \notin Range(ports')
           /\ lastOp'.op = "unplug")
        => (connectionStatus' = DISCONNECTED /\ selectedInput' = Null
              /\ d \notin Range(inputs')) ]_vars

\* The delays of a connect whose retries all fail.
BackoffSchedule == << 1000, 2000, 4000 >>

\* C2: a connect that fails while the retry counter is 0 and no retry is
\* pending, and whose automatic retries all fail, gets its retries scheduled
\* 1000 ms, 2000 ms and 4000 ms out, in that order, each delay being
\* 2^counter * 1000 for the counter at the failure; when the third retry has
\* failed no timer is pending, the counter is 3 and the state is Error.
C2_BackoffSchedule ==
  logClean =>
    /\ Len(retryLog) \in 1..Len(BackoffSchedule)
    /\ retryLog = SubSeq(BackoffSchedule, 1, Len(retryLog))
    /\ connectionStatus = ERROR
    /\ Len(timers) <= 1
    /\ timers # << >> =>
         /\ retryAttempts = Len(retryLog) - 1
         /\ timers[1].delay = retryLog[Len(retryLog)]
         /\ timers[1].delay = Pow2(retryAttempts) * 1000
    /\ timers = << >> =>
         /\ retryLog = BackoffSchedule
         /\ retryAttempts = maxRetryAttempts

\* C2 witness: the three retries were scheduled and the last one has failed.
C2_Witness ==
  /\ logClean
  /\ retryLog = BackoffSchedule
  /\ timers = << >>
  /\ lastOp.op = "retryTimer"
  /\ connectionStatus = ERROR

\* C7: at most one input device has the hook's listeners attached, and while
\* the state is Connected that device is the selected one.
C7_OneDeviceListens ==
  /\ Cardinality(deviceListeners) <= 1
  /\ connectionStatus = CONNECTED => deviceListeners \subseteq {selectedInput}

\* C10 as stated: retryConnection() called in Error always makes a connection
\* attempt, which ends in Connected or in Error with a new error recorded.
C10_RetryAlwaysAttempts ==
  [][ (connectionStatus = ERROR /\ lastOp'.op = "retryConnection")
      => \/ connectionStatus' = CONNECTED
         \/ connectionStatus' = ERROR /\ errorInfo' # Null ]_vars

\* C10 amended: retryConnection() called in Error makes a connection attempt
\* (ending in Connected, or in Error with a new error recorded) when a device
\* is selected or at least one is enumerated; with nothing selected and
\* nothing enumerated it only clears the error and refreshes the device list:
\* the state stays Error and no retry is scheduled.
C10_RetryAttemptsWhenDeviceKnown ==
  [][ (connectionStatus = ERROR /\ lastOp'.op = "retryConnection")
      => IF selectedInput # Null \/ Len(inputs) > 0
         THEN \/ connectionStatus' = CONNECTED
              \/ connectionStatus' = ERROR /\ errorInfo' # Null
         ELSE /\ connectionStatus' = ERROR
              /\ errorInfo' = Null
              /\ timers' = timers
              /\ selectedInput' = Null ]_vars

\* C10 witness: retryConnection() was called in Error with no device selected
\* and one enumerated, and its attempt connected.
C10_Witness ==
  /\ lastOp = [op |-> "retryConnection", from |-> ERROR]
  /\ connectionStatus = CONNECTED
  /\ Len(connectionHistory) > 0
  /\ retryAttempts = 0

(***************************************************************************)
(* Properties of the recorder                                              *)
(***************************************************************************)

\* C4: a call of importFromJSON that returns false leaves the recorder's
\* events, startTime, stopTime and recording flag exactly as they were.
C4_FailedImportLeavesState ==
  [][ (recOp' = "importFromJSON" /\ importOk' = FALSE) => recorder' = recorder ]_vars

\* The 4-byte big-endian number at bytes[i..i+3].
DecodeInt32(bytes, i) ==
  bytes[i] * 16777216 + bytes[i + 1] * 65536 + bytes[i + 2] * 256 + bytes[i + 3]

\* Where the track chunks of a file start: after the 14 bytes of the header.
TrackStarts(bytes) ==
  { i \in (Len(headerChunk) + 1)..(Len(bytes) - 7) : SubSeq(bytes, i, i + 3) = MTrk }

\* The bytes between a chunk's length field and the next chunk or the end.
PayloadLength(bytes, i) ==
  LET later == { j \in TrackStarts(bytes) : j > i }
      next  == IF later = {} THEN Len(bytes) + 1
               ELSE CHOOSE j \in later : \A k \in later : j <= k
  IN next - (i + 8)

\* C5: the exported file starts with the 14 header bytes 'MThd', 6, format 1,
\* 2 tracks, division 0x01E0, two MTrk chunks follow, and the length field of
\* each equals the number of payload bytes present after it.
C5_ChunkLengthsMatch ==
  LET bytes == exportToMIDI(recorder.events)
  IN /\ SubSeq(bytes, 1, 14) = << 77, 84, 104, 100, 0, 0, 0, 6, 0, 1, 0, 2, 1, 224 >>
     /\ Cardinality(TrackStarts(bytes)) = 2
     /\ \A i \in TrackStarts(bytes) : DecodeInt32(bytes, i + 4) = PayloadLength(bytes, i)

\* C6: no onNoteOn, onNoteOff or onFinish of a playback is invoked after
\* stop() on its handle has returned.
C6_NoCallbackAfterStop ==
  \A p \in 1..Len(playbacks) : ~playbacks[p].late

\* C6 witness: a playback was stopped after some of its callbacks had run
\* and while others were still pending, and a later playback ran on.
C6_Witness ==
  \E p, q \in 1..Len(playbacks) :
    /\ p < q
    /\ playbacks[p].stopReturned
    /\ playbacks[p].calls # << >>
    /\ Len(playbacks[p].calls) < Len(playRecording(recorder.events).timeouts)
    /\ playbacks[q].calls # << >>
    /\ ~playbacks[q].stopReturned

\* The buffer has the same length and the same (type, note, velocity, time)
\* at every index as the buffer evs.
SameTuples(r, evs) ==
  /\ Len(r.events) = Len(evs)
  /\ \A i \in 1..Len(evs) : EventTuple(r.events[i]) = EventTuple(evs[i])

\* C9: importing the text of exportToJSON, into the same recorder or into a
\* fresh one, returns true and yields a buffer with the same event count and
\* the same (type, note, velocity, time) at every index.
C9_JsonRoundTrip ==
  LET doc   == exportToJSON(recorder)
      same  == importFromJSON(recorder, doc, now)
      fresh == importFromJSON(NewRecorder, doc, now)
  IN /\ same.ok /\ SameTuples(same.rec, recorder.events)
     /\ fresh.ok /\ SameTuples(fresh.rec, recorder.events)

\* C9 witness: a recording of a note-on and a note-off (which has no
\* velocity) was exported and imported back.
C9_Witness ==
  /\ recOp = "importFromJSON"
  /\ importOk
  /\ Len(recorder.events) = 2
  /\ recorder.events[1].type = "noteon"
  /\ recorder.events[2].type = "noteoff"
  /\ recorder.events[2].velocity = Undef
  /\ Get(recorder.events[2].recordTime) > 0

\* The device the priority rule names for the registry, the persisted last
\* device and the stored history of the current state, as the store's reads
\* return them.
PriorityDevice ==
  LET last    == getLastMidiDevice
      history == getMidiConnectionHistory
  IN IF last # Null /\ last \in Range(inputs) THEN last
     ELSE IF \E i \in 1..Len(history) : history[i] \in Range(inputs)
     THEN LET first == CHOOSE i \in 1..Len(history) :
                         /\ history[i] \in Range(inputs)
                         /\ \A j \in 1..(i - 1) : history[j] \notin Range(inputs)
          IN history[first]
     ELSE inputs[1]

\* autoConnectToDevice is called by a handler: through the hook's API, or by
\* retryConnection when nothing is selected.
AutoConnectCalled ==
  \/ lastOp'.op = "autoConnect"
  \/ lastOp'.op = "retryConnection" /\ selectedInput = Null

\* C11: a call of autoConnectToDevice with WebMidi enabled and a device
\* enumerated attempts, when nothing is selected, the device of the priority
\* rule (last device, else first stored-history entry in the registry, else
\* first enumerated): that device becomes the selected one when it is
\* present, and otherwise the state is Error and the retry that is scheduled
\* is for that device.  With a device selected nothing is attempted.
C11_AutoConnectPriority ==
  [][ (AutoConnectCalled /\ webMidiEnabled /\ Len(inputs) > 0) =>
        IF selectedInput = Null
        THEN IF PriorityDevice \in Range(ports)
             THEN selectedInput' = PriorityDevice /\ connectionStatus' = CONNECTED
             ELSE /\ connectionStatus' = ERROR
                  /\ selectedInput' = Null
                  /\ ShouldRetry(retryAttempts) =>
                       /\ Len(timers') = Len(timers) + 1
                       /\ timers'[Len(timers')].dev = PriorityDevice
        ELSE UNCHANGED << connectionStatus, selectedInput, deviceListeners,
                          timers, errorInfo >> ]_vars

\* C11 witness: with no last device, autoConnectToDevice took B from the
\* stored history although A is enumerated first; B had been removed, so
\* the attempt failed and its retry is pending.
C11_Witness ==
  /\ lastOp.op = "autoConnect"
  /\ connectionStatus = ERROR
  /\ lastDevice = Null
  /\ storedHistory = << "B" >>
  /\ inputs = << "A", "B" >>
  /\ timers # << >>
  /\ timers[Len(timers)].dev = "B"

\* C12: in the Connected state a device is selected, and a disconnect()
\* called in the Connected state ends in Disconnected with no device
\* selected and no listener on the device that was selected.
C12_ConnectedHasSelection ==
  /\ [](connectionStatus = CONNECTED => selectedInput # Null)
  /\ [][ (lastOp'.op = "disconnect" /\ connectionStatus = CONNECTED) =>
           /\ connectionStatus' = DISCONNECTED
           /\ selectedInput' = Null
           /\ selectedInput \notin deviceListeners' ]_vars

\* C12 witness: disconnect() ran while connected to B, reached after a
\* connect to A and a connect to B.
C12_Witness ==
  /\ lastOp = [op |-> "disconnect", from |-> CONNECTED]
  /\ connectionStatus = DISCONNECTED
  /\ selectedInput = Null
  /\ lastDevice = "B"
  /\ storedHistory = << "B", "A" >>
  /\ deviceListeners = {}

\* A step that is a failed connection attempt and schedules a retry: the new
\* timer is the last of timers'.
SchedulesRetry ==
  /\ lastOp'.op \in {"connect", "autoConnect", "retryConnection", "retryTimer"}
  /\ connectionStatus' = ERROR
  /\ Len(timers') = (IF lastOp'.op = "retryTimer" THEN Len(timers) - 1
                                                  ELSE Len(timers)) + 1

\* The counter is 0 in the initial state and in every Connected state.
CounterZeroWhenConnected ==
  /\ retryAttempts = 0
  /\ [](connectionStatus = CONNECTED => retryAttempts = 0)

\* C13: the retry counter is 0 initially and whenever the state is
\* Connected, and the retry scheduled by a connection attempt that fails
\* from the Connected state is 1000 ms out.
C13_CounterResetOnSuccess ==
  /\ CounterZeroWhenConnected
  /\ [][ (connectionStatus = CONNECTED /\ SchedulesRetry) =>
           timers'[Len(timers')].delay = BackoffUnitMs ]_vars

\* A processMidiMessage call outside a recording leaves the recorder as it
\* was.
IdleCallChangesNothing ==
  [][ (recOp' = "processMidiMessage" /\ ~recorder.isRecording) =>
        recorder' = recorder ]_vars

\* A call during a recording whose start time is set appends one event,
\* timed from that start time.
TimedFromStartWhenSet ==
  [][ (recOp' = "processMidiMessage" /\ recorder.isRecording
         /\ recorder.startTime # Undef) =>
        /\ Len(recorder'.events) = Len(recorder.events) + 1
        /\ recorder'.events[Len(recorder'.events)].recordTime
             = Val(now - Get(recorder.startTime)) ]_vars

\* C16: a processMidiMessage call outside a recording changes nothing, and a
\* call between startRecording and the next stopRecording appends exactly
\* one event, whose recordTime is the time of the call minus the start time
\* of the session.
C16_RecordsOnlyWhileRecording ==
  /\ IdleCallChangesNothing
  /\ [][ (recOp' = "processMidiMessage" /\ recorder.isRecording) =>
           /\ Len(recorder'.events) = Len(recorder.events) + 1
           /\ SubSeq(recorder'.events, 1, Len(recorder.events)) = recorder.events
           /\ recorder.startTime # Undef
           /\ recorder'.events[Len(recorder'.events)].recordTime
                = Val(now - Get(recorder.startTime)) ]_vars

\* C17: startRecording leaves an empty buffer, no stop time and the
\* recording flag set, whatever the recorder held before.
C17_StartIsFresh ==
  [][ recOp' = "startRecording" =>
        /\ recorder'.events = << >>
        /\ recorder'.stopTime = Undef
        /\ recorder'.isRecording
        /\ recorder'.startTime = Val(now) ]_vars

\* C17 witness: a session started after the clock had advanced, followed by
\* one recorded message.
C17_Witness ==
  /\ recOp = "processMidiMessage"
  /\ recorder.isRecording
  /\ recorder.startTime = Val(2 * ClockStep)
  /\ Len(recorder.events) = 1
  /\ recorder.events[1].recordTime = Val(0)

\* C18: the buffered events are in non-decreasing order of recordTime.
C18_EventsOrdered ==
  \A i \in 1..Len(recorder.events), j \in 1..Len(recorder.events) :
    i <= j => Get(recorder.events[i].recordTime) <= Get(recorder.events[j].recordTime)

\* The callback a buffered event calls for, at its recordTime.
NoteCall(event) ==
  [fn |-> IF event.type = "noteon" /\ Get(event.velocity) > 0 THEN "noteOn"
          ELSE "noteOff",
   note |-> event.note,
   velocity |-> IF event.type = "noteon" /\ Get(event.velocity) > 0
                THEN event.velocity ELSE Undef,
   at |-> Get(event.recordTime)]

\* The note events among evs, in the order of the buffer.
NoteEvents(evs) == SelectSeq(evs, LAMBDA event : event.type \in {"noteon", "noteoff"})

\* The latest recordTime of a non-empty set of events.
LatestTime(evs) ==
  CHOOSE t \in { Get(evs[i].recordTime) : i \in 1..Len(evs) } :
    \A i \in 1..Len(evs) : Get(evs[i].recordTime) <= t

\* The callbacks a playback of evs owes: one per note event, then onFinish
\* 100 ms after the latest event.
CallsOwed(evs) ==
  LET notes == NoteEvents(evs)
  IN [i \in 1..Len(notes) |-> NoteCall(notes[i])]
       \o << [fn |-> "finish", note |-> Undef, velocity |-> Undef,
              at |-> LatestTime(evs) + 100] >>

\* s is the beginning of t.
IsPrefix(s, t) == Len(s) <= Len(t) /\ s = SubSeq(t, 1, Len(s))

\* C19: a playback of a non-empty buffer that is not cancelled makes the
\* callbacks it owes and no other, each at most once, in the order of the
\* buffer (which is the order of recordTime) and at the recordTime of its
\* event, with onFinish last; what it has not yet called is still scheduled.
C19_PlaybackDelivers ==
  \A p \in 1..Len(playbacks) :
    (~playbacks[p].isStopped /\ Len(recorder.events) > 0) =>
      /\ IsPrefix(playbacks[p].calls, CallsOwed(recorder.events))
      /\ Len(playbacks[p].calls) + Len(playbacks[p].timeouts)
           = Len(CallsOwed(recorder.events))
      /\ \A i, j \in 1..Len(playbacks[p].calls) :
           i <= j => playbacks[p].calls[i].at <= playbacks[p].calls[j].at

\* C19 witness: a playback of a note-on and a note-off 200 ms apart has made
\* its three callbacks.
C19_Witness ==
  \E p \in 1..Len(playbacks) :
    /\ ~playbacks[p].isStopped
    /\ playbacks[p].timeouts = << >>
    /\ Len(playbacks[p].calls) = 3
    /\ playbacks[p].calls[1].fn = "noteOn"
    /\ playbacks[p].calls[2].fn = "noteOff"
    /\ playbacks[p].calls[2].at = ClockStep
    /\ playbacks[p].calls[3].fn = "finish"

\* What playback p still has to call, were it left alone.
Remaining(p) ==
  [i \in 1..Len(playbacks[p].timeouts) |-> Call(playbacks[p].timeouts[i])]

\* C20: no step of a playback changes the recorder or another playback's
\* handle, and a playback that was not itself stopped has called or still
\* has scheduled every callback of its own sequence, whatever happened to
\* the other playbacks of the same recorder.
C20_PlaybackReentrant ==
  /\ [][ /\ recorder' = recorder
         /\ \A p, q \in 1..Len(playbacks) :
              (p # q /\ playbacks'[p] # playbacks[p]) => playbacks'[q] = playbacks[q]
     ]_vars
  /\ [](\A p \in 1..Len(playbacks) :
          ~playbacks[p].isStopped =>
            playbacks[p].calls \o Remaining(p) = playRecording(recorder.events).calls
                 \o [i \in 1..Len(playRecording(recorder.events).timeouts) |->
                       Call(playRecording(recorder.events).timeouts[i])])

\* C20 witness: of two playbacks of the same two-event buffer the first was
\* stopped with callbacks pending and the second made all its callbacks.
C20_Witness ==
  \E p, q \in 1..Len(playbacks) :
    /\ p < q
    /\ Len(recorder.events) = 2
    /\ playbacks[p].isStopped
    /\ Len(playbacks[p].calls) = 1
    /\ ~playbacks[q].isStopped
    /\ playbacks[q].timeouts = << >>
    /\ Len(playbacks[q].calls) = 3

\* The index after the variable-length quantity that starts at bytes[i]: its
\* last byte is the first one below 0x80.  0 when the bytes end within it.
RECURSIVE AfterDelta(_, _)
AfterDelta(bytes, i) ==
  IF i > Len(bytes) THEN 0
  ELSE IF bytes[i] < 128 THEN i + 1
  ELSE AfterDelta(bytes, i + 1)

\* Reads a track's payload from bytes[i] on as <delta><0x90 or 0x80><note>
\* <velocity> events closed by 00 FF 2F 00: the number of note events read,
\* or -1 when the bytes are not of that form.
RECURSIVE ReadTrack(_, _)
ReadTrack(bytes, i) ==
  LET j == AfterDelta(bytes, i)
  IN IF j = 0 \/ j > Len(bytes) THEN -1
     ELSE IF bytes[j] \in {144, 128}
     THEN IF j + 2 > Len(bytes) \/ bytes[j + 1] >= 128 \/ bytes[j + 2] >= 128
          THEN -1
          ELSE LET rest == ReadTrack(bytes, j + 3)
               IN IF rest < 0 THEN -1 ELSE rest + 1
     ELSE IF SubSeq(bytes, i, Len(bytes)) = << 0, 255, 47, 0 >> THEN 0
     ELSE -1

\* The note track of a buffer that holds only note-on and note-off messages
\* is well formed.
NoteOnlyTrackWellFormed ==
  NoteEvents(recorder.events) = recorder.events =>
    ReadTrack(track2EventArray(recorder.events), 1) = Len(recorder.events)

\* C21: the note track exportToMIDI writes for the buffer is a sequence of
\* <delta><0x90 or 0x80><note><velocity> events, one per buffered note-on or
\* note-off message, closed by 00 FF 2F 00, whatever messages the buffer
\* holds.
C21_NoteTrackWellFormed ==
  ReadTrack(track2EventArray(recorder.events), 1) = Len(NoteEvents(recorder.events))

\* The spec's scenario, started at the current clock time: a note-on of C4
\* with velocity 0.8 at t = 0, its note-off at t = 500, then stopRecording.
ScenarioExport ==
  exportToJSON(
    stopRecording(
      processMidiMessage(
        processMidiMessage(startRecording(NewRecorder, now),
                           NoteOnMsg("C4", 80, now), now),
        NoteOffMsg("C4", now + 500), now + 500),
      now + 500))

\* C22: after startRecording at T0, k processMidiMessage calls and
\* stopRecording at T1, with no other method called, exportToJSON reports k
\* events and the duration T1 - T0; for the scenario it reports duration 500
\* and two events, with times 0 and 500.
C22_ExportReportsSession ==
  /\ (session # Undef /\ Get(session).stop # Undef) =>
       LET doc == exportToJSON(recorder)
       IN /\ Len(doc.events.items) = Get(session).calls
          /\ doc.duration = Val(Get(Get(session).stop) - Get(session).start)
  /\ ScenarioExport.duration = Val(500)
  /\ Len(ScenarioExport.events.items) = 2
  /\ Get(ScenarioExport.events.items[1])["time"] = Val(0)
  /\ Get(ScenarioExport.events.items[2])["time"] = Val(500)

\* C22 witness: a session of two calls, the second one clock step after the
\* start, was stopped and its export reports two events and that duration.
C22_Witness ==
  /\ session # Undef
  /\ Get(session).calls = 2
  /\ Get(session).stop = Val(Get(session).start + ClockStep)
  /\ Len(exportToJSON(recorder).events.items) = 2
  /\ exportToJSON(recorder).duration = Val(ClockStep)
  /\ Get(exportToJSON(recorder).events.items[2])["time"] = Val(ClockStep)

(***************************************************************************)
(* Further properties of the connection manager                            *)
(***************************************************************************)

\* Every step but a connectToDevice call leaves the Unavailable state as it is.
OnlyConnectLeavesUnavailable ==
  [][ (connectionStatus = UNAVAILABLE /\ lastOp'.op # "connect") =>
        connectionStatus' = UNAVAILABLE ]_vars

\* C25: once the state is Unavailable it stays Unavailable, whatever is
\* called and whatever device is plugged in or removed.
C25_UnavailableIsTerminal ==
  [][ connectionStatus = UNAVAILABLE => connectionStatus' = UNAVAILABLE ]_vars

\* The five codes of the error taxonomy.
TaxonomyCodes ==
  {"PERMISSION_DENIED", "NOT_SUPPORTED", "DEVICE_NOT_FOUND", "CONNECTION_FAILED",
   "UNKNOWN_ERROR"}

\* A connectToDevice call by a handler that does not end in Connected.
ConnectFailed == lastOp'.op = "connect" /\ connectionStatus' # CONNECTED

\* A connect that fails with WebMidi enabled ends in Error with the code
\* getMIDIErrorCode gives for the text of the error, one of the five.
FailedConnectClassified ==
  [][ (ConnectFailed /\ webMidiEnabled) =>
        /\ connectionStatus' = ERROR
        /\ errorInfo' \in TaxonomyCodes
        /\ errorInfo' = "DEVICE_NOT_FOUND" ]_vars

\* C26: every failed connect ends in Error with a code of the taxonomy
\* stored in errorInfo.
C26_FailedConnectHasTaxonomyCode ==
  [][ ConnectFailed =>
        /\ connectionStatus' = ERROR
        /\ errorInfo' \in TaxonomyCodes ]_vars

\* The handlers and timers that may call connectToDevice.
AttemptOps == {"connect", "autoConnect", "retryConnection", "autoTimer", "retryTimer"}

\* C27: with a store whose every access throws, the reads give no last
\* device and an empty history: initialization loads an empty history and
\* goes on, an auto-connect with nothing selected attempts the first
\* enumerated device and connects when it is plugged in, a retry is scheduled
\* only for a device that is not plugged in, and the only errors a
\* connection attempt records are those of the attempt itself (device not
\* found, WebMidi not enabled), never one of the store.
C27_StoreFailureAbsorbed ==
  /\ [](storeThrows => getLastMidiDevice = Null /\ getMidiConnectionHistory = << >>)
  /\ [][ (storeThrows /\ lastOp'.op = "enabled" /\ isMounted) =>
           /\ connectionHistory' = << >>
           /\ connectionStatus' = connectionStatus
           /\ initPc' = "listen" ]_vars
  /\ [][ (storeThrows /\ AutoConnectCalled /\ webMidiEnabled /\ Len(inputs) > 0
            /\ selectedInput = Null) =>
           IF inputs[1] \in Range(ports)
           THEN connectionStatus' = CONNECTED /\ selectedInput' = inputs[1]
           ELSE connectionStatus' = ERROR /\ selectedInput' = Null ]_vars
  /\ [][ (storeThrows /\ SchedulesRetry) =>
           timers'[Len(timers')].dev \notin Range(ports) ]_vars
  /\ [][ (storeThrows /\ lastOp'.op \in AttemptOps /\ errorInfo' # errorInfo) =>
           errorInfo' \in {Null, "DEVICE_NOT_FOUND", "NOT_ENABLED"} ]_vars

\* C27 witness: with a throwing store and A and B plugged in, an
\* auto-connect took A, the first enumerated device, and connected; the
\* history is kept in memory and the store holds nothing.
C27_Witness ==
  /\ storeThrows
  /\ lastOp.op = "autoConnect"
  /\ connectionStatus = CONNECTED
  /\ inputs = << "A", "B" >>
  /\ selectedInput = "A"
  /\ connectionHistory = << "A" >>
  /\ storedHistory = << >>
  /\ lastDevice = Null

\* No id occurs twice in the list.
NoDuplicates(list) ==
  \A i, j \in 1..Len(list) : list[i] = list[j] => i = j

\* A connection attempt that connected.
ConnectSucceeded ==
  /\ lastOp'.op \in AttemptOps
  /\ connectionStatus' = CONNECTED
  /\ selectedInput' # selectedInput \/ connectionStatus # CONNECTED

\* C28: the connection history never holds more than 5 entries nor an id
\* twice, a successful connect leaves the connected device as its first
\* entry, and the list it writes to a working store is the list held in
\* memory.
C28_HistoryBounded ==
  /\ [](Len(connectionHistory) <= HistoryCapacity /\ NoDuplicates(connectionHistory))
  /\ [](connectionStatus = CONNECTED => connectionHistory[1] = selectedInput)
  /\ [][ ConnectSucceeded =>
           /\ connectionHistory'[1] = selectedInput'
           /\ ~storeThrows => storedHistory' = connectionHistory' ]_vars

\* C28 witness: the store held five devices; connecting to A, a sixth,
\* dropped the oldest, and connecting to B moved B to the front.
C28_Witness ==
  /\ lastOp.op = "connect"
  /\ connectionStatus = CONNECTED
  /\ selectedInput = "B"
  /\ connectionHistory = << "B", "A", "C", "D", "E" >>
  /\ storedHistory = connectionHistory

\* The step is a hot-plug event after a successful initialization.
HotPlugAfterInit ==
  /\ lastOp'.op \in {"plug", "unplug"}
  /\ webMidiEnabled
  /\ initPc = "done"

\* What the claim requires of the registry after the event: the port that
\* appeared is enumerated, the port that went is not, the rest is as before.
RegistryFollows ==
  \A d \in Devices :
    /\ (d \notin Range(ports) /\ d \in Range(ports')) => inputs' = AddInput(inputs, d)
    /\ (d \in Range(ports) /\ d \notin Range(ports')) => inputs' = RemoveInput(inputs, d)

\* While WebMidi has the hook's listeners the events are applied, and the
\* registry never holds an id twice.
AppliedWhileListening ==
  /\ [](NoDuplicates(inputs))
  /\ [][ (HotPlugAfterInit /\ hotplugListener) => RegistryFollows ]_vars

\* C29: after a successful initialization every hot-plug event is applied to
\* the registry, in every connection state: an added port is enumerated, a
\* removed one is not, and no id is enumerated twice.
C29_HotPlugApplied ==
  /\ [](NoDuplicates(inputs))
  /\ [][ HotPlugAfterInit => RegistryFollows ]_vars

\* The deferred auto-connect of the initialization never changes the state
\* of the connection.
AutoTimerChangesNothing ==
  [][ lastOp'.op = "autoTimer" =>
        /\ connectionStatus' = connectionStatus
        /\ selectedInput' = selectedInput ]_vars

\* C35: once initialization has succeeded with auto-connect on and a device
\* enumerated (the auto-connect is due), the state becomes Connected or Error
\* without the user doing anything.
C35_AutoConnectCompletes ==
  (webMidiEnabled /\ initPc = "done" /\ autoTimer)
    ~> (connectionStatus \in {CONNECTED, ERROR} \/ eventCount > 0)

\* A retry timer fires.
RetryFires == lastOp'.op = "retryTimer"

\* The connection is left as it was: state, selected device, listeners.
ConnectionUntouched ==
  /\ connectionStatus' = connectionStatus
  /\ selectedInput' = selectedInput
  /\ deviceListeners' = deviceListeners

\* A retry timer that fires in the Error state in which its failure left the
\* manager, with no device selected, attempts the device of that failure
\* and ends Connected to it or in Error.
RetryInErrorAttempts ==
  [][ (RetryFires /\ connectionStatus = ERROR /\ selectedInput = Null) =>
        \/ connectionStatus' = CONNECTED /\ selectedInput' # Null
        \/ connectionStatus' = ERROR /\ selectedInput' = Null ]_vars

\* C36: a retry timer left over from an earlier failure does nothing to a
\* connection established since (state Connected) and does not connect again
\* after the connection was given up (state Disconnected).
C36_RetryBelongsToFailure ==
  [][ (RetryFires /\ connectionStatus \in {CONNECTED, DISCONNECTED}) =>
        ConnectionUntouched ]_vars

\* A failed attempt schedules a retry only while the counter is below
\* maxRetryAttempts.
RetryScheduledBelowLimit ==
  [][ SchedulesRetry => retryAttempts' < maxRetryAttempts ]_vars

\* C37: the retry counter never exceeds maxRetryAttempts and at most one
\* retry timer is pending, however quickly connects fail one after another.
C37_RetriesBounded ==
  /\ retryAttempts <= maxRetryAttempts
  /\ Len(timers) <= 1

\* No device is selected in the states Disconnected, Connecting and
\* Unavailable.
NoSelectionWhenNotTried ==
  connectionStatus \in {DISCONNECTED, CONNECTING, UNAVAILABLE} => selectedInput = Null

\* C38: a device is selected only in the Connected state; a connect to a
\* missing device issued while connected does not leave the old device
\* selected in the Error state.
C38_SelectedOnlyWhenConnected ==
  connectionStatus # CONNECTED => selectedInput = Null

(***************************************************************************)
(* Properties of the timing analyzer                                       *)
(***************************************************************************)

\* The step handles the note-off (or the note-on with velocity 0) of note n
\* at timestamp e, the last message handled for n being its note-on at s.
ClosesNote(n, s, e) ==
  /\ timingOp'.op = "handleMidiMessage"
  /\ IsNoteOff(Get(timingOp'.arg))
  /\ Get(timingOp'.arg).note = Val(n)
  /\ Get(timingOp'.arg).timestamp = Val(e)
  /\ opened[n] = Val(s)

\* getNoteTimings reports, for note n, the start s, the end e and e - s.
ReportsTiming(a, n, s, e) ==
  /\ getMidiNoteNumber(Val(n)) \in DOMAIN getNoteTimings(a)
  /\ getNoteTimings(a)[getMidiNoteNumber(Val(n))]
       = [startTime |-> Val(s), endTime |-> Val(e), duration |-> Val(e - s)]

\* A note-on at a timestamp above 0 followed by the note-off is reported
\* with its start, end and duration.
TimedWhenStartPositive ==
  [][ \A n \in Notes, s \in Timestamps, e \in Timestamps :
        (ClosesNote(n, s, e) /\ 0 < s /\ s <= e) =>
          ReportsTiming(analyzer', n, s, e) ]_vars

\* C23: for timestamps 0 <= s <= e, after a note-on with velocity above 0 at
\* s followed by the note-off or the note-on with velocity 0 of the same
\* note at e, getNoteTimings reports startTime s, endTime e and duration
\* e - s for the note.
C23_TimingRecorded ==
  [][ \A n \in Notes, s \in Timestamps, e \in Timestamps :
        (ClosesNote(n, s, e) /\ 0 <= s /\ s <= e) =>
          ReportsTiming(analyzer', n, s, e) ]_vars

\* round(100 * clamp(1 - |1 - actual/expected|, 0, 1)) for expected > 0.
ClampedAccuracy(actual, expected) ==
  LET near == expected - Abs(expected - actual)
  IN IF near < 0 THEN 0
     ELSE IF near > expected THEN 100
     ELSE RoundDiv(100 * near, expected)

\* The notes getNoteTimings reports as closed: those with an end time.
ClosedNotes(a) ==
  { key \in DOMAIN getNoteTimings(a) : getNoteTimings(a)[key].endTime # Undef }

\* The durations the analyzer is asked to compare with.
ExpectedDurations == { MsPerMinute \div bpm : bpm \in Tempos }

\* results is what the claim requires of analyzeTiming(expected).
ScoresAsClaimed(a, results, expected) ==
  /\ DOMAIN results = ClosedNotes(a)
  /\ \A key \in DOMAIN results :
       LET actual == Get(getNoteTimings(a)[key].duration)
       IN /\ results[key].accuracy = ClampedAccuracy(actual, expected)
          /\ results[key].isTooLong <=> (10 * actual > 12 * expected)
          /\ results[key].isTooShort <=> (10 * actual < 8 * expected)

\* C24: analyzeTiming(expected) has an entry for every closed note and for
\* no open one, with accuracy = round(100 * clamp(1 - |1 - actual/expected|,
\* 0, 1)), isTooLong iff actual/expected > 1.2 and isTooShort iff
\* actual/expected < 0.8; analyzeRhythm is analyzeTiming(60000 / tempo) for
\* the tempo last given to setTempo, so that at tempo 120 a note held 500 ms
\* has accuracy 100 and no flag and a note held 700 ms is too long and not
\* too short.
C24_TimingScores ==
  /\ [](\A expected \in ExpectedDurations :
          ScoresAsClaimed(analyzer, analyzeTiming(analyzer, expected), expected))
  /\ [][ timingOp'.op = "setTempo" =>
           analyzer'.metronomeTempo = Get(timingOp'.arg) ]_vars
  /\ [](analyzeRhythm(analyzer)
          = analyzeTiming(analyzer, MsPerMinute \div analyzer.metronomeTempo))
  /\ [](analyzer.metronomeTempo = 120 =>
          \A key \in ClosedNotes(analyzer) :
            LET held   == Get(getNoteTimings(analyzer)[key].duration)
                result == analyzeRhythm(analyzer)[key]
            IN /\ held = 500 => /\ result.accuracy = 100
                                /\ ~result.isTooLong
                                /\ ~result.isTooShort
               /\ held = 700 => result.isTooLong /\ ~result.isTooShort)

\* C24 witness: at tempo 120, given by setTempo, one note was held 500 ms
\* and another 700 ms, and analyzeRhythm scores the first 100 and flags the
\* second as too long.
C24_Witness ==
  /\ analyzer.metronomeTempo = 120
  /\ analyzer.beatDuration = 500
  /\ DOMAIN analyzeRhythm(analyzer) = { Val(60), Val(62) }
  /\ analyzeRhythm(analyzer)[Val(60)].actual = 500
  /\ analyzeRhythm(analyzer)[Val(60)].accuracy = 100
  /\ analyzeRhythm(analyzer)[Val(62)].actual = 700
  /\ analyzeRhythm(analyzer)[Val(62)].accuracy = 60
  /\ analyzeRhythm(analyzer)[Val(62)].isTooLong

(***************************************************************************)
(* Properties of the note tracker and of the consumers of MIDI messages    *)
(***************************************************************************)

\* C3: the activeNotes the hook exposes, read as a set, is the union of the
\* per-source sets of notesBySource.
C3_ActiveIsUnion ==
  piano.activeNotes = AllActiveNotes(piano.notesBySource)

\* The component's handler leaves the same state for a note-on with
\* velocity 0 as for the note-off of the same note.
ComponentTreatsAlike ==
  \A n \in Notes :
    midiClosure # Undef =>
      HandleMidiMessage(component, Get(midiClosure), piano, NoteOnMsg(n, 0, 0))
        = HandleMidiMessage(component, Get(midiClosure), piano, NoteOffMsg(n, 0))

\* Playback and MIDI export give the same callbacks and the same bytes for a
\* session that ends with the one message as with the other.
RecorderTreatsAlike ==
  \A prefix \in SeqsUpTo(NoteMessagesAt(0), 1), gap \in Gaps, n \in Notes :
    LET quiet == RecordSession(Append(prefix, NoteOnMsg(n, 0, 0)), gap).events
        off   == RecordSession(Append(prefix, NoteOffMsg(n, 0)), gap).events
    IN /\ playRecording(quiet).timeouts = playRecording(off).timeouts
       /\ exportToMIDI(quiet) = exportToMIDI(off)

\* The timing analyzer records the same timings for the two.
AnalyzerTreatsAlike ==
  \A noteTimings \in TimingStates, n \in Notes :
    TimingHandleMidiMessage(noteTimings, NoteOnMsg(n, 0, 3 * ClockStep))
      = TimingHandleMidiMessage(noteTimings, NoteOffMsg(n, 3 * ClockStep))

\* C8: every consumer handles a note-on with velocity 0 as the note-off of
\* the same note: the component's MIDI handler (Piano's or PianoProvider's),
\* the recorder's playback and MIDI export, and the timing analyzer reach the
\* same state for the two messages.
C8_VelocityZeroIsNoteOff ==
  /\ ComponentTreatsAlike
  /\ RecorderTreatsAlike
  /\ AnalyzerTreatsAlike

\* The value setSustain gave last: the queued one until React renders.
SustainEngaged(k) ==
  IF k.pendingSustain # Undef THEN Get(k.pendingSustain) ELSE k.isSustainActive

\* C14: while sustain is engaged no step takes a note out of the audio
\* engine's set of sounding notes.
C14_SustainKeepsSounding ==
  [][ (SustainEngaged(piano) /\ SustainEngaged(piano')) =>
        piano.sounding \subseteq piano'.sounding ]_vars

\* C15: the step in which sustain goes from engaged to not engaged leaves
\* no note sounding.
C15_PedalUpReleasesAll ==
  [][ (SustainEngaged(piano) /\ ~SustainEngaged(piano')) =>
        piano'.sounding = {} ]_vars

\* The tracker after n calls of activateNote(note, source) in a row.
RECURSIVE ActivateTimes(_, _, _, _)
ActivateTimes(k, note, source, n) ==
  IF n = 0 THEN k
  ELSE activateNote(ActivateTimes(k, note, source, n - 1), note, source)

\* The tracker after n calls of deactivateNote(note, source) in a row.
RECURSIVE DeactivateTimes(_, _, _, _)
DeactivateTimes(k, note, source, n) ==
  IF n = 0 THEN k
  ELSE deactivateNote(DeactivateTimes(k, note, source, n - 1), note, source)

\* What the hook exposes once React has rendered the queued updates.
Exposed(k) ==
  [notesBySource |-> CommitState(k).notesBySource,
   activeNotes |-> CommitState(k).activeNotes]

\* C30: in every state of the tracker, with updates queued or not, n >= 1
\* identical calls of activateNote, or of deactivateNote, leave the
\* per-source sets and the active notes that one call leaves.
C30_RepeatedCallsIdempotent ==
  \A note \in Notes, source \in Sources, n \in 1..MaxBatch :
    /\ Exposed(ActivateTimes(piano, note, source, n))
         = Exposed(activateNote(piano, note, source))
    /\ Exposed(DeactivateTimes(piano, note, source, n))
         = Exposed(deactivateNote(piano, note, source))

\* Two calls in one batch on the empty tracker: the first activated C4 for
\* the midi source, the second found it there and queued the same sets.
C30_Witness ==
  /\ batch = 2
  /\ piano.notesBySource = NoSourceNotes
  /\ piano.pendingNotes = [NoSourceNotes EXCEPT !["midi"] = {"C4"}]
  /\ piano.directActive = Val({"C4"})
  /\ piano.phaseActive = Val({"C4"})
  /\ Exposed(piano).activeNotes = {"C4"}

\* C31: in every state of the tracker clearSource(s) leaves the set of s
\* empty and the set of every other source as the updates queued so far
\* left it, and the active notes rendered are the notes of the other sources.
C31_ClearSourceFrame ==
  \A s \in Sources :
    LET e == Exposed(clearSource(piano, s))
    IN /\ e.notesBySource[s] = {}
       /\ \A t \in Sources \ {s} : e.notesBySource[t] = piano.pendingNotes[t]
       /\ e.activeNotes = UNION { piano.pendingNotes[t] : t \in Sources \ {s} }

\* The one call since the last render emptied the midi source's set of two
\* notes and left the mouse its note.
C31_Witness ==
  /\ batch = 1
  /\ piano.notesBySource =
       [NoSourceNotes EXCEPT !["midi"] = {"C4", "D4"}, !["mouse"] = {"C4"}]
  /\ piano.pendingNotes = [NoSourceNotes EXCEPT !["mouse"] = {"C4"}]
  /\ piano.directActive = Val({"C4"})
  /\ Exposed(piano).activeNotes = {"C4"}

(***************************************************************************)
(* Properties of the helper functions                                      *)
(***************************************************************************)

\* The semitone of a note letter above C.
Semitone ==
  [l \in NoteLetters |->
     CASE l = "C" -> 0 [] l = "D" -> 2 [] l = "E" -> 4 [] l = "F" -> 5
       [] l = "G" -> 7 [] l = "A" -> 9 [] l = "B" -> 11]

\* The MIDI number of the pitch a spelled note names.
Pitch(note) ==
  12 * (note.octave + 1) + Semitone[note.name]
    + (CASE accidentalOf(note) = "#" -> 1
         [] accidentalOf(note) = "b" -> -1
         [] OTHER -> 0)

\* A note's spelling as written: letter, accidental, octave.
Spelling(note) == note.name \o accidentalOf(note) \o ToString(note.octave)

IsSpelled(note) == note.type = "object" /\ note.number = Undef

\* The spellings with no flat, one octave beyond the arguments' on either
\* side, and the names that contain a flat.
SharpOrNatural ==
  { NoteObject(Undef, l, a, o) :
      l \in NoteLetters, a \in Accidentals \ {Val("b")}, o \in (-2) .. 10 }

FlatNames ==
  { l \o "b" \o ToString(o) : l \in NoteLetters, o \in (-2) .. 10 }

\* C32: the name formatMidiNote gives a note spelled with a flat is the
\* sharp or natural spelling of the same pitch, B of the octave below for
\* Cb; no name given to a spelled note contains a flat, and a flat and the
\* sharp or natural spelling of its pitch are given the same name.
C32_FlatsBecomeSharps ==
  (formatted # Undef /\ IsSpelled(Get(formatted).note)) =>
    LET x    == Get(formatted).note
        name == Get(formatted).name
    IN /\ name \notin FlatNames
       /\ accidentalOf(x) = "b" =>
            /\ \E y \in SharpOrNatural : Pitch(y) = Pitch(x) /\ name = Spelling(y)
            /\ \A y \in SharpOrNatural : Pitch(y) = Pitch(x) => formatMidiNote(y) = name
            /\ x.name = "C" => name = "B" \o ToString(x.octave - 1)

\* Cb of octave 4 was formatted and named B3.
C32_Witness ==
  formatted = Val([note |-> NoteObject(Undef, "C", Val("b"), 4), name |-> "B3"])

\* The value a sequence of bytes stands for, 7 bits of each, first byte
\* most significant.
RECURSIVE DecodeVariableLength(_)
DecodeVariableLength(bytes) ==
  IF bytes = << >> THEN 0
  ELSE DecodeVariableLength(SubSeq(bytes, 1, Len(bytes) - 1)) * 128
         + (bytes[Len(bytes)] % 128)

\* C34: the bytes encodeVariableLength gives a value of the 28-bit range
\* decode to the value, have the continuation bit on every byte but the
\* last, and do not begin with an empty continuation byte.
C34_VariableLengthRoundTrip ==
  encoded # Undef =>
    LET value == Get(encoded).value
        bytes == Get(encoded).bytes
    IN /\ Len(bytes) \in 1..4
       /\ \A i \in 1..Len(bytes) : bytes[i] \in 0..255
       /\ DecodeVariableLength(bytes) = value
       /\ \A i \in 1..(Len(bytes) - 1) : bytes[i] >= 128
       /\ bytes[Len(bytes)] < 128
       /\ Len(bytes) > 1 => bytes[1] # 128

\* The largest 28-bit value was encoded, in four bytes.
C34_Witness ==
  encoded = Val([value |-> 268435455, bytes |-> << 255, 255, 255, 127 >>])

(***************************************************************************)
(* Further properties of the recorder                                      *)
(***************************************************************************)

NonDecreasing(evs) ==
  \A i \in 1..(Len(evs) - 1) :
    Get(evs[i].recordTime) <= Get(evs[i + 1].recordTime)

\* Reads the note track written for sortedEvents, the delta of event i
\* starting at bytes[p] and time being the sum of the deltas before it: every
\* delta is a complete variable-length quantity, the deltas up to an event
\* sum to round(recordTime * 480 / 500), and the end of track follows the
\* last event.
RECURSIVE DeltasSumToTicks(_, _, _, _, _)
DeltasSumToTicks(bytes, p, sortedEvents, i, time) ==
  IF i > Len(sortedEvents) THEN SubSeq(bytes, p, Len(bytes)) = << 0, 255, 47, 0 >>
  ELSE LET q == AfterDelta(bytes, p)
           t == time + DecodeVariableLength(SubSeq(bytes, p, q - 1))
       IN /\ q # 0
          /\ \A k \in p..(q - 1) : bytes[k] \in 0..255
          /\ t = RoundDiv(Get(sortedEvents[i].recordTime) * 480, 500)
          /\ DeltasSumToTicks(bytes, q + Len(EventBytes(sortedEvents[i])),
                              sortedEvents, i + 1, t)

\* A buffer whose times in ticks are not whole: 27, 1, 13 and 26 ms.
RoundingBuffer ==
  [i \in 1..4 |->
     [NoteOnMsg("C4", 80, 0) EXCEPT !.recordTime = Val(<< 27, 1, 13, 26 >>[i])]]

ClearLeavesFlag ==
  [][ recOp' = "clearRecording" =>
        /\ recorder'.events = << >>
        /\ recorder'.startTime = Undef /\ recorder'.stopTime = Undef
        /\ recorder'.isRecording = recorder.isRecording ]_vars

\* C40: a processMidiMessage call made while the recorder has no start time
\* (before the first startRecording, or after clearRecording and before the
\* next startRecording) stores nothing.
C40_ClearEndsSession ==
  [][ (recOp' = "processMidiMessage" /\ recorder.startTime = Undef) =>
        recorder'.events = << >> ]_vars

(***************************************************************************)
(* Further properties of the components                                    *)
(***************************************************************************)

\* The tracker's active set: the notes of every source, with the updates
\* queued so far.
ActiveSet(k) == AllActiveNotes(k.pendingNotes)

\* A step that is a note-on or note-off changing the tracker, taken by a
\* handler of the last render (nothing queued, and a MIDI listener, if it is
\* the one that runs, attached in that render), with the samples loaded,
\* sustain not engaged, and the sounding notes equal to the active set
\* before it.
NoteStepInTune ==
  /\ piano.isLoaded
  /\ ~piano.dirty
  /\ ~SustainEngaged(piano) /\ ~SustainEngaged(piano')
  /\ piano.sounding = ActiveSet(piano)
  /\ piano'.pendingNotes # piano.pendingNotes
  /\ \/ piano'.pendingNotes["midi"] = piano.pendingNotes["midi"]
     \/ midiClosure = Val(PianoClosure(piano))

\* No note is held by two sources.
HeldOnce(k) ==
  \A s, t \in Sources : s # t => k.pendingNotes[s] \cap k.pendingNotes[t] = {}

\* While every note is held by one source at most, a note-on or note-off
\* leaves the sounding notes equal to the active set.
SingleHolderInTune ==
  [][ (NoteStepInTune /\ HeldOnce(piano) /\ HeldOnce(piano')) =>
        piano'.sounding = ActiveSet(piano') ]_vars

\* C39: with sustain not engaged, a note-on or note-off from any source
\* leaves the sounding notes of the audio engine equal to the tracker's
\* active set: a note two sources hold keeps sounding when one releases it.
C39_SoundingIsActive ==
  [][ NoteStepInTune => piano'.sounding = ActiveSet(piano') ]_vars

====
